---- MODULE Spec2Model ----
(***************************************************************************)
(* Colour quantization (OctreeMap / OctreeNode) and the animated GIF       *)
(* codec (GifDecoder / GifEncoder).                                        *)
(*                                                                         *)
(* A colour is the tuple <<r, g, b, a>> of its four 8-bit channels (a      *)
(* packed color_t does not fit the integers of the model checker).  An     *)
(* octree node is named by its path from the root: the sequence of the     *)
(* hextets (child indexes 0..15) that lead to it.                          *)
(***************************************************************************)
EXTENDS Integers, Sequences, FiniteSets, TLC

VARIABLES
  \* ---- OctreeMap ----
  m_root,                      \* path -> node, for every node that was touched
  m_leavesVector,              \* sequence of paths
  m_maskIndex,
  m_includeMaskColorInPalette,
  m_palette,                   \* id of the palette the map was built from, 0 = none
  m_modifications,
  pals,                        \* palette id -> [colors, mods]: the Palette objects
  outPalette,                  \* the Palette object handed to makePalette
  levelDeep,                   \* depth the colours are fed at (7 or 8)
  octOp,                       \* last OctreeMap operation and what it returned
  \* ---- GifEncoder ----
  m_spriteBounds,              \* [w, h] of the canvas
  m_hasBackground,
  m_preservePaletteOrder,
  m_images,                    \* 0..2 -> image (row-major pixels), <<>> while never written
  m_previousImage,             \* index in m_images
  m_currentImage,
  m_nextImage,
  m_lastFrameBounds,
  m_lastDisposal,
  gifFrame,                    \* the frame the loop of encode() is at
  nframes,
  encOp,                       \* last writeImage call and the images it was computed from
  calc,                        \* the call of calculatePalette: its locals and where it is
  \* ---- GIF file, FileOp and GifDecoder ----
  srcSprite,                   \* the sprite handed to the encoder, <<>> when none
  gifFile,                     \* screen descriptor and records of the file, <<>> when none
  gifPos,                      \* records of the file read so far
  fopOneFrame,                 \* FileOp::isOneFrame
  fopStop,                     \* FileOp::isStop
  dec,                         \* the members of the GifDecoder
  decOp                        \* how decode() ended

octVars == <<m_root, m_leavesVector, m_maskIndex, m_includeMaskColorInPalette,
             m_palette, m_modifications, pals, outPalette, levelDeep, octOp>>

encVars == <<m_spriteBounds, m_hasBackground, m_preservePaletteOrder, m_images,
             m_previousImage, m_currentImage, m_nextImage, m_lastFrameBounds,
             m_lastDisposal, gifFrame, nframes, encOp, calc>>

decVars == <<srcSprite, gifFile, gifPos, fopOneFrame, fopStop, dec, decOp>>

vars == <<octVars, encVars, decVars>>

\***************************************************************************
\* Helpers
\***************************************************************************
RECURSIVE Pow2(_)
Pow2(n) == IF n = 0 THEN 1 ELSE 2 * Pow2(n - 1)

Last(s) == s[Len(s)]
Front(s) == SubSeq(s, 1, Len(s) - 1)
Reverse(s) == [i \in 1..Len(s) |-> s[Len(s) + 1 - i]]
RemoveAt(s, k) == SubSeq(s, 1, k - 1) \o SubSeq(s, k + 1, Len(s))
Parent(p) == Front(p)
Max(a, b) == IF a >= b THEN a ELSE b
Min(a, b) == IF a <= b THEN a ELSE b

\* a size_t compared with an int: the int is converted to unsigned, so a
\* negative int is larger than any size
SizeLEOffByOne(size, n) == IF n < 0 THEN TRUE ELSE size <= n + 1
SizeLE(size, n) == IF n < 0 THEN TRUE ELSE size <= n
SizeLT(size, n) == IF n < 0 THEN TRUE ELSE size < n

\***************************************************************************
\* doc/color.h
\***************************************************************************
rgba(r, g, b, a) == <<r, g, b, a>>
rgba_getr(c) == c[1]
rgba_getg(c) == c[2]
rgba_getb(c) == c[3]
rgba_geta(c) == c[4]

\***************************************************************************
\* OctreeNode
\***************************************************************************
\* bit (0x80 >> level) of a channel
ChannelBit(v, level) == (v \div Pow2(7 - level)) % 2

getHextet(c, level) ==
  ChannelBit(rgba_getr(c), level) + 2 * ChannelBit(rgba_getg(c), level)
    + 4 * ChannelBit(rgba_getb(c), level) + 8 * ChannelBit(rgba_geta(c), level)

\* the path of the node a colour reaches at the given depth
PathOf(c, depth) == [l \in 1..depth |-> getHextet(c, l - 1)]

\* a default-constructed node: empty accumulator, no cached palette index
EmptyNode == [r |-> 0, g |-> 0, b |-> 0, a |-> 0, pixelCount |-> 0, paletteIndex |-> -1]

NodeAt(tree, p) == IF p \in DOMAIN tree THEN tree[p] ELSE EmptyNode

EmptyTree == [p \in {<<>>} |-> EmptyNode]

isLeaf(tree, p) == NodeAt(tree, p).pixelCount > 0

hasChildren(tree, p) == \E h \in 0..15 : Append(p, h) \in DOMAIN tree

\* LeafColor::add(color_t)
LeafAddColor(n, c) ==
  [n EXCEPT !.r = @ + rgba_getr(c), !.g = @ + rgba_getg(c), !.b = @ + rgba_getb(c),
            !.a = @ + rgba_geta(c), !.pixelCount = @ + 1]

\* an add(LeafColor) that leaves the red of the other accumulator out
LeafAddLeafWithoutRed(n, m) ==
  [n EXCEPT !.g = @ + m.g, !.b = @ + m.b, !.a = @ + m.a,
            !.pixelCount = @ + m.pixelCount]

\* LeafColor::add(LeafColor)
LeafAddLeaf(n, m) ==
  [n EXCEPT !.r = @ + m.r, !.g = @ + m.g, !.b = @ + m.b, !.a = @ + m.a,
            !.pixelCount = @ + m.pixelCount]

\* LeafColor::rgbaColor(): the averaged colour of the accumulator
rgbaColor(n) ==
  rgba(n.r \div n.pixelCount, n.g \div n.pixelCount,
       n.b \div n.pixelCount, n.a \div n.pixelCount)

\* OctreeNode::addColor: walks down the hextets of c allocating the children
\* on the way; at depth deep it folds c into the leaf and records paletteIndex
addColor(tree, c, paletteIndex, deep) ==
  LET p == PathOf(c, deep)
      dom == DOMAIN tree \cup {SubSeq(p, 1, k) : k \in 0..deep}
  IN [q \in dom |->
        IF q = p
          THEN [LeafAddColor(NodeAt(tree, q), c) EXCEPT !.paletteIndex = paletteIndex]
          ELSE NodeAt(tree, q)]

\* the allocated children of node p that were touched, in index order (an
\* untouched child is neither a leaf nor a parent, and every loop over the 16
\* children skips it)
childrenOf(tree, p) ==
  LET S == {h \in 0..15 : Append(p, h) \in DOMAIN tree}
  IN [k \in 1..Cardinality(S) |-> CHOOSE h \in S : Cardinality({x \in S : x < h}) = k - 1]

\* OctreeNode::collectLeafNodes on node p, from its k-th touched child on.
\* st = [tree, leaves, paletteIndex]
RECURSIVE collectLeafNodesFrom(_, _, _, _)
collectLeafNodesFrom(st, p, kids, k) ==
  IF k > Len(kids) \/ st.paletteIndex < 0 THEN st
  ELSE LET child == Append(p, kids[k])
       IN IF isLeaf(st.tree, child)
            THEN collectLeafNodesFrom(
                   [tree |-> [st.tree EXCEPT ![child].paletteIndex = st.paletteIndex],
                    leaves |-> Append(st.leaves, child),
                    paletteIndex |-> st.paletteIndex + 1], p, kids, k + 1)
          ELSE IF hasChildren(st.tree, child)
            THEN collectLeafNodesFrom(
                   collectLeafNodesFrom(st, child, childrenOf(st.tree, child), 1),
                   p, kids, k + 1)
          ELSE collectLeafNodesFrom(st, p, kids, k + 1)

collectLeafNodes(tree, leaves) ==
  collectLeafNodesFrom([tree |-> tree, leaves |-> leaves, paletteIndex |-> 0],
                       <<>>, childrenOf(tree, <<>>), 1)

\* OctreeNode::removeLeaves on node p, children i..0.
\* st = [tree, leaves, aux, oob]; oob records a read of rootLeavesVector[-1]
RECURSIVE removeLeavesFrom(_, _, _)
removeLeavesFrom(st, p, i) ==
  IF i < 0 THEN [st EXCEPT !.aux = Append(@, p)]
  ELSE LET child == Append(p, i)
       IN IF isLeaf(st.tree, child)
            THEN LET merged == [st.tree EXCEPT ![p] = LeafAddLeaf(@, st.tree[child])]
                     empty == Len(st.leaves) = 0
                     pop == ~empty /\ Last(st.leaves) = child
                 IN removeLeavesFrom(
                      [st EXCEPT !.tree = merged,
                                 !.leaves = IF pop THEN Front(@) ELSE @,
                                 !.oob = @ \/ empty], p, i - 1)
          ELSE removeLeavesFrom(st, p, i - 1)

removeLeaves(st, p) == removeLeavesFrom(st, p, 15)

\* m_parent of a node: the root was added with itself as its parent
parentOf(p) == IF p = <<>> THEN <<>> ELSE Parent(p)

\***************************************************************************
\* OctreeMap::makePalette
\***************************************************************************
\* index of the first node of aux with the largest pixel count
RECURSIVE maximumIndexFrom(_, _, _, _)
maximumIndexFrom(tree, aux, j, best) ==
  IF j > Len(aux) THEN best
  ELSE maximumIndexFrom(tree, aux, j + 1,
         IF tree[aux[j]].pixelCount > tree[aux[best]].pixelCount THEN j ELSE best)

\* "Sort colors": most pixelCount on front of sortedVector
RECURSIVE sortColors(_, _, _)
sortColors(tree, aux, sorted) ==
  IF Len(aux) = 0 THEN sorted
  ELSE LET k == maximumIndexFrom(tree, aux, 2, 1)
       IN sortColors(tree, RemoveAt(aux, k), Append(sorted, aux[k]))

\* "Blend colors": blend in pairs from the least pixelCount colors.
\* st = [tree, sorted]
RECURSIVE blendColors(_, _)
blendColors(st, colorCount) ==
  IF SizeLE(Len(st.sorted), colorCount) THEN st
  ELSE LET n == Len(st.sorted)
       IN blendColors(
            [tree |-> [st.tree EXCEPT ![st.sorted[n - 1]] =
                                        LeafAddLeaf(@, st.tree[st.sorted[n]])],
             sorted |-> Front(st.sorted)], colorCount)

\* one iteration of the inner loop of makePalette.
\* st = [tree, leaves, aux, oob, keepReducingMap, sorted, break]; sorted are
\* the pixel counts of sortedVector when "Sort colors" ends
reduceStep(st, colorCount) ==
  IF st.break THEN st
  ELSE IF SizeLE(Len(st.leaves) + Len(st.aux), colorCount)
    THEN [st EXCEPT !.leaves = @ \o Reverse(st.aux), !.keepReducingMap = FALSE,
                    !.break = TRUE]
  ELSE IF Len(st.leaves) = 0
    THEN IF Len(st.aux) <= 16 /\ colorCount < 16 /\ colorCount > 0
           THEN LET sortedVector == sortColors(st.tree, st.aux, <<>>)
                    b == blendColors([tree |-> st.tree, sorted |-> sortedVector], colorCount)
                IN [st EXCEPT !.tree = b.tree, !.leaves = @ \o b.sorted,
                              !.aux = <<>>, !.keepReducingMap = FALSE, !.break = TRUE,
                              !.sorted = [k \in 1..Len(sortedVector) |->
                                            st.tree[sortedVector[k]].pixelCount]]
           ELSE [st EXCEPT !.break = TRUE]
  ELSE LET r == removeLeaves([tree |-> st.tree, leaves |-> st.leaves,
                              aux |-> st.aux, oob |-> st.oob],
                             parentOf(Last(st.leaves)))
       IN [st EXCEPT !.tree = r.tree, !.leaves = r.leaves, !.aux = r.aux, !.oob = r.oob]

\* n iterations of the inner loop, or those up to its break (the iterations
\* are split in halves to keep the evaluation shallow)
RECURSIVE reduceSteps(_, _, _)
reduceSteps(st, colorCount, n) ==
  IF n <= 0 \/ st.break THEN st
  ELSE IF n = 1 THEN reduceStep(st, colorCount)
  ELSE reduceSteps(reduceSteps(st, colorCount, n \div 2), colorCount, n - (n \div 2))

\* the inner loop of makePalette: for (i = m_leavesVector.size()-1; i >= 0; i--)
reduceLevel(st, colorCount) ==
  LET r == reduceSteps([tree |-> st.tree, leaves |-> st.leaves, aux |-> st.aux,
                        oob |-> st.oob, keepReducingMap |-> st.keepReducingMap,
                        sorted |-> st.sorted, break |-> FALSE],
                       colorCount, Len(st.leaves))
  IN [tree |-> r.tree, leaves |-> r.leaves, aux |-> r.aux, oob |-> r.oob,
      keepReducingMap |-> r.keepReducingMap, sorted |-> r.sorted]

\* the outer loop of makePalette: for (level = levelDeep; level > -1; level--)
RECURSIVE reduceMap(_, _, _)
reduceMap(st, colorCount, level) ==
  IF level <= -1 THEN st
  ELSE LET r == reduceLevel(st, colorCount)
       IN IF r.keepReducingMap
            THEN reduceMap([r EXCEPT !.leaves = @ \o Reverse(r.aux), !.aux = <<>>],
                           colorCount, level - 1)
            ELSE r

\* doc/color.h, grayscale pixels <<v, a>>
graya_getv(c) == c[1]
graya_geta(c) == c[2]

MIN_ALPHA_THRESHOLD == 16

\* color |= forceFullOpacity: the alpha bits are all set when the mask is
\* the alpha mask of the format, and kept when it is 0
orFullOpacity(color, imageIsRGBA, forceFullOpacity) ==
  IF ~forceFullOpacity THEN color
  ELSE IF imageIsRGBA THEN rgba(rgba_getr(color), rgba_getg(color), rgba_getb(color), 255)
  ELSE <<graya_getv(color), 255>>

\* a lambda that reads the alpha once the opacity is forced
add_color_to_octreeForcedFirst(tree, color, imageIsRGBA, forceFullOpacity, deep) ==
  LET forced == orFullOpacity(color, imageIsRGBA, forceFullOpacity)
      alpha == IF imageIsRGBA THEN rgba_geta(forced) ELSE graya_geta(forced)
  IN IF alpha >= MIN_ALPHA_THRESHOLD
       THEN addColor(tree,
                     IF imageIsRGBA THEN forced
                     ELSE rgba(graya_getv(forced), graya_getv(forced), graya_getv(forced), alpha),
                     0, deep)
       ELSE tree

\* the lambda add_color_to_octree of OctreeMap::feedWithImage
add_color_to_octree(tree, color, imageIsRGBA, forceFullOpacity, deep) ==
  LET alpha == IF imageIsRGBA THEN rgba_geta(color) ELSE graya_geta(color)
      forced == orFullOpacity(color, imageIsRGBA, forceFullOpacity)
  IN IF alpha >= MIN_ALPHA_THRESHOLD
       THEN addColor(tree,
                     IF imageIsRGBA THEN forced
                     ELSE rgba(graya_getv(forced), graya_getv(forced), graya_getv(forced), alpha),
                     0, deep)
       ELSE tree

\* doc::for_each_pixel(image, add_color_to_octree) from pixel i on
RECURSIVE for_each_pixel(_, _, _, _, _, _)
for_each_pixel(tree, pixels, i, imageIsRGBA, forceFullOpacity, deep) ==
  IF i > Len(pixels) THEN tree
  ELSE for_each_pixel(add_color_to_octree(tree, pixels[i], imageIsRGBA, forceFullOpacity, deep),
                      pixels, i + 1, imageIsRGBA, forceFullOpacity, deep)

\* OctreeMap::feedWithImage(image, withAlpha, levelDeep)
feedWithImage(tree, image, withAlpha, deep) ==
  for_each_pixel(tree, image.pixels, 1, image.pixelFormat = "IMAGE_RGB", ~withAlpha, deep)

\* the palette filled from the leaves (entry 0 is the mask colour when it is
\* included)
fillPalette(tree, leaves, includeMask) ==
  (IF includeMask THEN <<rgba(0, 0, 0, 0)>> ELSE <<>>)
    \o [i \in 1..Len(leaves) |-> rgbaColor(tree[leaves[i]])]

\* a makePalette that also asks for the deeper octree when the leaves are
\* exactly as many as the colours asked
makePaletteReduceAtMost(tree, leaves, includeMask, colorCount, deep, palette) ==
  LET c == IF hasChildren(tree, <<>>)
             THEN collectLeafNodes(tree, leaves)
             ELSE [tree |-> tree, leaves |-> leaves]
  IN IF deep = 7 /\ SizeLE(Len(c.leaves), colorCount)
       THEN [ret |-> FALSE, tree |-> c.tree, leaves |-> c.leaves,
             palette |-> palette, oob |-> FALSE, sorted |-> <<>>]
       ELSE LET r == reduceMap([tree |-> c.tree, leaves |-> c.leaves, aux |-> <<>>,
                                oob |-> FALSE, keepReducingMap |-> TRUE, sorted |-> <<>>],
                               colorCount, deep)
            IN [ret |-> TRUE, tree |-> r.tree, leaves |-> r.leaves,
                palette |-> fillPalette(r.tree, r.leaves, includeMask),
                oob |-> r.oob, sorted |-> r.sorted]

\* OctreeMap::makePalette from the collection of the leaves on; colorCount
\* is the count left once the mask colour has its entry.
\* Returns [ret, tree, leaves, palette, oob, sorted]
makePaletteReduce(tree, leaves, includeMask, colorCount, deep, palette) ==
  LET c == IF hasChildren(tree, <<>>)
             THEN collectLeafNodes(tree, leaves)
             ELSE [tree |-> tree, leaves |-> leaves]
  IN IF deep = 7 /\ SizeLT(Len(c.leaves), colorCount)
       THEN [ret |-> FALSE, tree |-> c.tree, leaves |-> c.leaves,
             palette |-> palette, oob |-> FALSE, sorted |-> <<>>]
       ELSE LET r == reduceMap([tree |-> c.tree, leaves |-> c.leaves, aux |-> <<>>,
                                oob |-> FALSE, keepReducingMap |-> TRUE, sorted |-> <<>>],
                               colorCount, deep)
            IN [ret |-> TRUE, tree |-> r.tree, leaves |-> r.leaves,
                palette |-> fillPalette(r.tree, r.leaves, includeMask),
                oob |-> r.oob, sorted |-> r.sorted]

\* a makePalette that takes the mask entry out of colorCount whether or not
\* the mask colour is included
makePaletteAlwaysReserves(tree, leaves, includeMask, colorCountArg, deep, palette) ==
  makePaletteReduce(tree, leaves, includeMask, colorCountArg - 1, deep, palette)

\* OctreeMap::makePalette(palette, colorCount, levelDeep) on the map
\* [tree, leaves], with the palette's colours before the call
makePalette(tree, leaves, includeMask, colorCountArg, deep, palette) ==
  makePaletteReduce(tree, leaves, includeMask,
                    IF includeMask THEN colorCountArg - 1 ELSE colorCountArg,
                    deep, palette)

\***************************************************************************
\* Quantization: addColor* then makePalette on one OctreeMap
\***************************************************************************
MaxColors == 4          \* colours fed to one map
MaxTarget == 3          \* largest colorCount asked of makePalette

red == rgba(255, 0, 0, 255)
blue == rgba(0, 0, 255, 255)

\* red and two of its neighbours (same depth-7 leaf, sibling depth-7 leaf),
\* blue and a neighbour, green
QuantColors ==
  {red, rgba(254, 0, 0, 255), rgba(252, 0, 0, 255),
   blue, rgba(0, 0, 254, 255), rgba(0, 255, 0, 255)}

\* number of colours folded into the nodes of the given depth
RECURSIVE SumPixelCount(_, _)
SumPixelCount(tree, ps) ==
  IF ps = {} THEN 0
  ELSE LET p == CHOOSE q \in ps : TRUE
       IN tree[p].pixelCount + SumPixelCount(tree, ps \ {p})

NodesAtDepth(tree, d) == {p \in DOMAIN tree : Len(p) = d}
FedCount(tree, d) == SumPixelCount(tree, NodesAtDepth(tree, d))

\* no file is read
NoDecoder ==
  /\ srcSprite = <<>>
  /\ gifFile = <<>>
  /\ gifPos = 0
  /\ fopOneFrame = FALSE
  /\ fopStop = FALSE
  /\ dec = <<>>
  /\ decOp = [name |-> "none"]

\* calculatePalette is not called
NoCalc == [op |-> "none"]

\* no GifEncoder was made
NoEncoder ==
  /\ calc = NoCalc
  /\ m_spriteBounds = [w |-> 0, h |-> 0]
  /\ m_hasBackground = FALSE
  /\ m_preservePaletteOrder = FALSE
  /\ m_images = <<>>
  /\ m_previousImage = 0
  /\ m_currentImage = 0
  /\ m_nextImage = 0
  /\ m_lastFrameBounds = [x |-> 0, y |-> 0, w |-> 0, h |-> 0]
  /\ m_lastDisposal = "NONE"
  /\ gifFrame = 0
  /\ nframes = 0
  /\ encOp = [name |-> "none"]

\* a new OctreeMap (no sprite): m_includeMaskColorInPalette is either value
NewOctreeMap ==
  /\ m_root = EmptyTree
  /\ m_leavesVector = <<>>
  /\ m_maskIndex = -1
  /\ m_includeMaskColorInPalette \in BOOLEAN
  /\ m_palette = 0
  /\ m_modifications = 0

QuantInit ==
  /\ NewOctreeMap
  /\ pals = <<>>
  /\ outPalette = <<rgba(0, 0, 0, 255)>>
  /\ levelDeep \in {7, 8}
  /\ octOp = [name |-> "new"]
  /\ NoEncoder
  /\ NoDecoder

\* OctreeMap::addColor(color, levelDeep), as feedWithImage calls it
FeedColor(c) ==
  /\ octOp.name \in {"new", "addColor"}
  /\ FedCount(m_root, levelDeep) < MaxColors
  /\ m_root' = addColor(m_root, c, 0, levelDeep)
  /\ octOp' = [name |-> "addColor"]
  /\ UNCHANGED <<m_leavesVector, m_maskIndex, m_includeMaskColorInPalette,
                 m_palette, m_modifications, pals, outPalette, levelDeep>>
  /\ UNCHANGED encVars
  /\ UNCHANGED decVars

\* makePalette(&outPalette, colorCount, levelDeep)
MakePalette(colorCount) ==
  /\ octOp.name \in {"new", "addColor"}
  /\ \E r \in {makePalette(m_root, m_leavesVector, m_includeMaskColorInPalette,
                            colorCount, levelDeep, outPalette)} :
        /\ m_root' = r.tree
        /\ m_leavesVector' = r.leaves
        /\ outPalette' = r.palette
        /\ octOp' = [name |-> "makePalette", ret |-> r.ret, colorCount |-> colorCount,
                     oob |-> r.oob, before |-> outPalette, root |-> m_root,
                     sorted |-> r.sorted]
  /\ UNCHANGED <<m_maskIndex, m_includeMaskColorInPalette, m_palette,
                 m_modifications, pals, levelDeep>>
  /\ UNCHANGED encVars
  /\ UNCHANGED decVars

QuantNext ==
  \/ \E c \in QuantColors : FeedColor(c)
  \/ \E n \in 1..MaxTarget : MakePalette(n)

SpecQuant == QuantInit /\ [][QuantNext]_vars

\***************************************************************************
\* Feeding: feedWithImage on RGB and grayscale images, between addColor calls
\***************************************************************************
MaxFeedPixels == 2      \* pixels of one image fed

FeedAlphas == {0, MIN_ALPHA_THRESHOLD - 1, MIN_ALPHA_THRESHOLD, 255}
RgbPixels == {rgba(255, 0, 0, a) : a \in FeedAlphas}
GrayPixels == {<<200, a>> : a \in FeedAlphas}

PixelsOf(set) == UNION {[1..n -> set] : n \in 1..MaxFeedPixels}

FeedImages ==
  {[pixelFormat |-> "IMAGE_RGB", pixels |-> ps] : ps \in PixelsOf(RgbPixels)}
    \cup {[pixelFormat |-> "IMAGE_GRAYSCALE", pixels |-> ps] : ps \in PixelsOf(GrayPixels)}

\* alpha of pixel i of an image
PixelAlpha(image, i) ==
  IF image.pixelFormat = "IMAGE_RGB" THEN rgba_geta(image.pixels[i])
                                     ELSE graya_geta(image.pixels[i])

\* feedWithImage(image, withAlpha, levelDeep) on a map that has the colours
\* of the addColor calls before
FeedWithImage ==
  /\ octOp.name \in {"new", "addColor"}
  /\ \E image \in FeedImages, withAlpha \in BOOLEAN :
       /\ m_root' = feedWithImage(m_root, image, withAlpha, levelDeep)
       /\ octOp' = [name |-> "feedWithImage", image |-> image, withAlpha |-> withAlpha,
                    before |-> m_root]
  /\ UNCHANGED <<m_leavesVector, m_maskIndex, m_includeMaskColorInPalette,
                 m_palette, m_modifications, pals, outPalette, levelDeep>>
  /\ UNCHANGED encVars
  /\ UNCHANGED decVars

FeedNext ==
  \/ FeedColor(red)
  \/ FeedWithImage

SpecFeed == QuantInit /\ [][FeedNext]_vars

\***************************************************************************
\* Quantization of an image of more than 256 colours down to 256
\***************************************************************************
GradExtra == 2          \* colours fed beyond 256

\* colour i of the image: a red ramp of 128 steps per green step (kind 1),
\* or of 16 steps per green step (kind 2); the steps are of 2 so that the
\* colours are distinct leaves at depth 7 as well
GradColor(kind, i) ==
  IF kind = 1 THEN rgba(2 * (i % 128), 2 * (i \div 128), 0, 255)
              ELSE rgba(2 * (i % 16), 2 * (i \div 16), 0, 255)

GradInit ==
  /\ NewOctreeMap
  /\ pals = <<>>
  /\ outPalette = <<rgba(0, 0, 0, 255)>>
  /\ levelDeep \in {7, 8}
  /\ \E kind \in {1, 2} : octOp = [name |-> "new", kind |-> kind, fed |-> 0]
  /\ NoEncoder
  /\ NoDecoder

\* OctreeMap::addColor(color, levelDeep) on the next pixel of the image
FeedGradient ==
  /\ octOp.name \in {"new", "addColor"}
  /\ octOp.fed < 256 + GradExtra
  /\ m_root' = addColor(m_root, GradColor(octOp.kind, octOp.fed), 0, levelDeep)
  /\ octOp' = [name |-> "addColor", kind |-> octOp.kind, fed |-> octOp.fed + 1]
  /\ UNCHANGED <<m_leavesVector, m_maskIndex, m_includeMaskColorInPalette,
                 m_palette, m_modifications, pals, outPalette, levelDeep>>
  /\ UNCHANGED encVars
  /\ UNCHANGED decVars

\* makePalette(&outPalette, 256, levelDeep) once the image is fed
GradMakePalette ==
  /\ octOp.name = "addColor"
  /\ octOp.fed >= 256
  /\ LET r == makePalette(m_root, m_leavesVector, m_includeMaskColorInPalette,
                          256, levelDeep, outPalette)
     IN /\ m_root' = r.tree
        /\ m_leavesVector' = r.leaves
        /\ outPalette' = r.palette
        /\ octOp' = [name |-> "makePalette", kind |-> octOp.kind, fed |-> octOp.fed,
                     ret |-> r.ret, colorCount |-> 256, oob |-> r.oob]
  /\ UNCHANGED <<m_maskIndex, m_includeMaskColorInPalette, m_palette,
                 m_modifications, pals, levelDeep>>
  /\ UNCHANGED encVars
  /\ UNCHANGED decVars

GradNext ==
  \/ FeedGradient
  \/ GradMakePalette

SpecGrad == GradInit /\ [][GradNext]_vars

\***************************************************************************
\* Colour mapping: regenerateMap and mapColor against Palette objects
\***************************************************************************
MaxPaletteSize == 2     \* entries of a Palette object
MaxModifications == 1   \* changes made to the Palette objects

black == rgba(0, 0, 0, 255)

PaletteIds == {1, 2}
PaletteColors == {red, blue}
\* the colours asked of mapColor: a palette colour, a near red, a transparent
MapColors == {red, rgba(250, 0, 0, 255), rgba(0, 0, 255, 0)}

ColorDiff(c, d) ==
  (c[1] - d[1]) * (c[1] - d[1]) + (c[2] - d[2]) * (c[2] - d[2])
    + (c[3] - d[3]) * (c[3] - d[3]) + (c[4] - d[4]) * (c[4] - d[4])

\* Palette::findBestfit: the first entry nearest to the colour among the
\* entries other than mask_index, entry 0 when there is none
findBestfit(colors, c, mask_index) ==
  LET S == {i \in 1..Len(colors) : i - 1 # mask_index}
  IN IF S = {} THEN 0
     ELSE (CHOOSE i \in S :
             \A j \in S : \/ ColorDiff(colors[i], c) < ColorDiff(colors[j], c)
                          \/ (ColorDiff(colors[i], c) = ColorDiff(colors[j], c) /\ i <= j)) - 1

\* a mapColor that returns the cached index without the best-fit search
nodeMapColorNoBestfit(tree, c, mask_index, colors) ==
  LET p == PathOf(c, 8)
      dom == DOMAIN tree \cup {SubSeq(p, 1, k) : k \in 0..8}
  IN [tree |-> [q \in dom |-> NodeAt(tree, q)], ret |-> NodeAt(tree, p).paletteIndex]

\* OctreeNode::mapColor from level 0: walks down the hextets of the colour
\* allocating the children on the way; at level 8 it resolves the palette
\* index by best fit when the node has none, and keeps it.
\* Returns [tree, ret]
nodeMapColor(tree, c, mask_index, colors) ==
  LET p == PathOf(c, 8)
      dom == DOMAIN tree \cup {SubSeq(p, 1, k) : k \in 0..8}
      index == IF NodeAt(tree, p).paletteIndex = -1
                 THEN findBestfit(colors, c, mask_index)
                 ELSE NodeAt(tree, p).paletteIndex
  IN [tree |-> [q \in dom |->
                  IF q = p THEN [NodeAt(tree, q) EXCEPT !.paletteIndex = index]
                           ELSE NodeAt(tree, q)],
      ret |-> index]

\* the loop of regenerateMap: palette entries i.. added at depth 8 with
\* their index
RECURSIVE addPaletteEntries(_, _, _)
addPaletteEntries(tree, colors, i) ==
  IF i >= Len(colors) THEN tree
  ELSE addPaletteEntries(addColor(tree, colors[i + 1], i, 8), colors, i + 1)

\* a "skip useless regenerations" test that forgets the mask index
isUselessRegenerationIgnoringMask(mapPalette, mapMods, mapMask, palette, mods, maskIndex) ==
  mapPalette = palette /\ mapMods = mods

\* "Skip useless regenerations"
isUselessRegeneration(mapPalette, mapMods, mapMask, palette, mods, maskIndex) ==
  /\ mapPalette = palette
  /\ mapMods = mods
  /\ mapMask = maskIndex

\* an OctreeMap made for a sprite records the sprite's palette and its stamp
\* (and the transparent index of an indexed sprite) without building the tree
MapInit ==
  /\ pals = [id \in PaletteIds |->
               [colors |-> IF id = 1 THEN <<black, red>> ELSE <<blue>>, mods |-> 0]]
  /\ m_root = EmptyTree
  /\ m_leavesVector = <<>>
  /\ m_includeMaskColorInPalette = FALSE
  /\ \/ m_palette = 0 /\ m_modifications = 0 /\ m_maskIndex = -1
     \/ m_palette = 1 /\ m_modifications = 0 /\ m_maskIndex \in {-1, 0}
  /\ outPalette = <<>>
  /\ levelDeep = 8
  /\ octOp = [name |-> "new"]
  /\ NoEncoder
  /\ NoDecoder

\* OctreeMap::regenerateMap(palette, maskIndex)
RegenerateMap(palette, maskIndex) ==
  /\ IF isUselessRegeneration(m_palette, m_modifications, m_maskIndex,
                              palette, pals[palette].mods, maskIndex)
       THEN /\ UNCHANGED <<m_root, m_leavesVector, m_maskIndex, m_palette, m_modifications>>
            /\ octOp' = [name |-> "regenerateMap", palette |-> palette,
                         maskIndex |-> maskIndex, rebuilt |-> FALSE]
       ELSE /\ m_root' = addPaletteEntries(EmptyTree, pals[palette].colors, 0)
            /\ m_leavesVector' = <<>>
            /\ m_maskIndex' = maskIndex
            /\ m_palette' = palette
            /\ m_modifications' = pals[palette].mods
            /\ octOp' = [name |-> "regenerateMap", palette |-> palette,
                         maskIndex |-> maskIndex, rebuilt |-> TRUE]
  /\ UNCHANGED <<m_includeMaskColorInPalette, pals, outPalette, levelDeep>>
  /\ UNCHANGED encVars
  /\ UNCHANGED decVars

\* OctreeMap::mapColor(rgba)
MapColor(c) ==
  /\ m_palette # 0
  /\ \E r \in {nodeMapColor(m_root, c, m_maskIndex, pals[m_palette].colors)} :
        /\ m_root' = r.tree
        /\ octOp' = [name |-> "mapColor", color |-> c, ret |-> r.ret,
                     cached |-> NodeAt(m_root, PathOf(c, 8)).paletteIndex]
  /\ UNCHANGED <<m_leavesVector, m_maskIndex, m_includeMaskColorInPalette,
                 m_palette, m_modifications, pals, outPalette, levelDeep>>
  /\ UNCHANGED encVars
  /\ UNCHANGED decVars

\* Palette::setEntry by the owner of the palette: the stamp grows
PaletteSetEntry(id, i, c) ==
  /\ pals[1].mods + pals[2].mods < MaxModifications
  /\ i < Len(pals[id].colors)
  /\ pals' = [pals EXCEPT ![id].colors[i + 1] = c, ![id].mods = @ + 1]
  /\ octOp' = [name |-> "setEntry"]
  /\ UNCHANGED <<m_root, m_leavesVector, m_maskIndex, m_includeMaskColorInPalette,
                 m_palette, m_modifications, outPalette, levelDeep>>
  /\ UNCHANGED encVars
  /\ UNCHANGED decVars

\* Palette::resize by the owner of the palette: new entries are black
PaletteResize(id, n) ==
  /\ pals[1].mods + pals[2].mods < MaxModifications
  /\ n # Len(pals[id].colors)
  /\ pals' = [pals EXCEPT
                ![id].colors = [k \in 1..n |-> IF k <= Len(@) THEN @[k] ELSE black],
                ![id].mods = @ + 1]
  /\ octOp' = [name |-> "resize"]
  /\ UNCHANGED <<m_root, m_leavesVector, m_maskIndex, m_includeMaskColorInPalette,
                 m_palette, m_modifications, outPalette, levelDeep>>
  /\ UNCHANGED encVars
  /\ UNCHANGED decVars

MapNext ==
  \/ \E id \in PaletteIds, mask \in -1..(MaxPaletteSize - 1) : RegenerateMap(id, mask)
  \/ \E c \in MapColors : MapColor(c)
  \/ \E id \in PaletteIds, i \in 0..(MaxPaletteSize - 1), c \in PaletteColors :
       PaletteSetEntry(id, i, c)
  \/ \E id \in PaletteIds, n \in 1..MaxPaletteSize : PaletteResize(id, n)

SpecMap == MapInit /\ [][MapNext]_vars

\***************************************************************************
\* Quantization to few colours: the leaves of five branches of the root,
\* reduced by "Sort colors" and "Blend colors"
\***************************************************************************
MaxBlendColors == 6     \* colours fed to one map
MaxBlendTarget == 3     \* largest colorCount asked of makePalette

\* red and a neighbour (sibling depth-7 leaf), blue, green, black and
\* white: five children of the root
BlendColors ==
  {red, rgba(252, 0, 0, 255), blue, rgba(0, 255, 0, 255), rgba(0, 0, 0, 255),
   rgba(255, 255, 255, 255)}

\* a new OctreeMap that create_palette_from_sprite feeds first (levelDeep 7)
BlendInit == QuantInit /\ levelDeep = 7

\* OctreeMap::addColor(color, levelDeep), as feedWithImage calls it
FeedLeaf(c) ==
  /\ octOp.name \in {"new", "addColor"}
  /\ FedCount(m_root, levelDeep) < MaxBlendColors
  /\ m_root' = addColor(m_root, c, 0, levelDeep)
  /\ octOp' = [name |-> "addColor"]
  /\ UNCHANGED <<m_leavesVector, m_maskIndex, m_includeMaskColorInPalette,
                 m_palette, m_modifications, pals, outPalette, levelDeep>>
  /\ UNCHANGED encVars
  /\ UNCHANGED decVars

BlendNext ==
  \/ \E c \in BlendColors : FeedLeaf(c)
  \/ \E n \in 1..MaxBlendTarget : MakePalette(n)

SpecBlend == BlendInit /\ [][BlendNext]_vars

\***************************************************************************
\* GifEncoder: the loop of encode() over the frames
\***************************************************************************
MaxPixels == 2          \* pixels of the canvas (w * h)
MaxFrames == 3          \* frames of the animation

\* canvas sizes
Canvases == {c \in (1..MaxPixels) \X (1..MaxPixels) : c[1] * c[2] <= MaxPixels}

\* a rendered pixel: 0 is the zero color_t (transparent), 1 and 2 are two
\* opaque colours
TransparentPixel == 0
OpaquePixels == {1, 2}
AnyPixels == OpaquePixels \cup {TransparentPixel}

\* the images renderFrame can leave in a buffer: the rendering of a sprite
\* with a visible background layer has no transparent pixel
Renderings(bounds, hasBackground) ==
  [1..(bounds.w * bounds.h) -> IF hasBackground THEN OpaquePixels ELSE AnyPixels]

\* what a buffer that was never written can hold
Garbage(bounds) == [1..(bounds.w * bounds.h) -> AnyPixels]

\* a rectangle test that takes every rectangle for one with pixels
isEmptyNever(r) == FALSE

Rect(x, y, w, h) == [x |-> x, y |-> y, w |-> w, h |-> h]
isEmpty(r) == r.w < 1 \/ r.h < 1

MinOf(S) == CHOOSE a \in S : \A b \in S : a <= b
MaxOf(S) == CHOOSE a \in S : \A b \in S : a >= b

\* a "pixel clearing" test that looks at the first pixel only
pixelClearingAtFirstPixel(current, next) ==
  current[1] # 0 /\ next[1] = 0

\* "Pixel clearing" detection: some pixel is not zero in the current image
\* and zero in the next one
pixelClearing(current, next) ==
  \E i \in DOMAIN current : current[i] # 0 /\ next[i] = 0

\* x1, y1, x2, y2 before the pixels are scanned
deltaStart(bounds, lastDisposal, lastFrameBounds) ==
  IF lastDisposal = "RESTORE_BGCOLOR"
    THEN [x1 |-> lastFrameBounds.x,
          y1 |-> lastFrameBounds.y,
          x2 |-> lastFrameBounds.x + lastFrameBounds.w - 1,
          y2 |-> lastFrameBounds.y + lastFrameBounds.h - 1]
    ELSE [x1 |-> bounds.w - 1, y1 |-> bounds.h - 1, x2 |-> 0, y2 |-> 0]

\* frame bounds handed on as they are
keepBounds(frameBounds) == frameBounds

\* "if (frameBounds.isEmpty()) frameBounds = gfx::Rect(0, 0, 1, 1)"
nonEmptyBounds(frameBounds) ==
  IF isEmpty(frameBounds) THEN Rect(0, 0, 1, 1) ELSE frameBounds

\* a disposal method that does not look at the palette order
laterDisposalIgnoresOrder(preserveOrder, clearing) ==
  IF clearing THEN "RESTORE_BGCOLOR" ELSE "DO_NOT_DISPOSE"

\* the disposal method of a frame after frame 0: DO_NOT_DISPOSE, or
\* RESTORE_BGCOLOR when a pixel clearing was found in the scan or
\* m_preservePaletteOrder is set
laterDisposal(preserveOrder, clearing) ==
  IF preserveOrder \/ clearing THEN "RESTORE_BGCOLOR" ELSE "DO_NOT_DISPOSE"

\* doc::crop_image of an image of the size of bounds: the pixels of the
\* rectangle row by row, 0 (bg) where the rectangle is outside the image; an
\* image [w, h, pixels] that has no pixel when the rectangle is empty
crop_image(image, bounds, rect) ==
  [w |-> rect.w, h |-> rect.h,
   pixels |-> [p \in 1..(IF isEmpty(rect) THEN 0 ELSE rect.w * rect.h) |->
                 IF /\ rect.x + ((p - 1) % rect.w) \in 0..(bounds.w - 1)
                    /\ rect.y + ((p - 1) \div rect.w) \in 0..(bounds.h - 1)
                   THEN image[(rect.y + ((p - 1) \div rect.w)) * bounds.w
                              + rect.x + ((p - 1) % rect.w) + 1]
                   ELSE 0]]

\* GifEncoder::calculateDeltaImageFrameBoundsDisposal on the three images.
\* The scan of frames > 0 goes over every pixel: its end test compares the
\* iterator of the current image with the end of the next image, which it
\* never meets, and stops with the previous image.
\* enc = [bounds, hasBackground, preservePaletteOrder, lastDisposal,
\* lastFrameBounds]. Returns [frameBounds, disposal, lastFrameBounds,
\* deltaImage]: m_deltaImage is a copy of the current image for frame 0, and
\* for the frames after it the crop, at frameBounds as the scan left it, of
\* the current image or of the image of the changed pixels
calculateDeltaImageFrameBoundsDisposal(frame, enc, previous, current, next) ==
  IF frame = 0
    THEN [frameBounds |-> nonEmptyBounds(Rect(0, 0, enc.bounds.w, enc.bounds.h)),
          disposal |-> IF ~enc.hasBackground /\ pixelClearing(current, next)
                         THEN "RESTORE_BGCOLOR" ELSE "DO_NOT_DISPOSE",
          lastFrameBounds |-> enc.lastFrameBounds,
          deltaImage |-> [w |-> enc.bounds.w, h |-> enc.bounds.h, pixels |-> current]]
    ELSE
      LET bounds == enc.bounds
          preserveOrder == enc.preservePaletteOrder
          lastDisposal == enc.lastDisposal
          lastFrameBounds == enc.lastFrameBounds
          s == deltaStart(bounds, lastDisposal, lastFrameBounds)
          changed == {i \in 0..(bounds.w * bounds.h - 1) :
                        previous[i + 1] # current[i + 1] \/ next[i + 1] = 0}
          x1 == MinOf({s.x1} \cup {i % bounds.w : i \in changed})
          x2 == MaxOf({s.x2} \cup {i % bounds.w : i \in changed})
          y1 == MinOf({s.y1} \cup {i \div bounds.w : i \in changed})
          y2 == MaxOf({s.y2} \cup {i \div bounds.w : i \in changed})
          disposal == laterDisposal(preserveOrder, pixelClearing(current, next))
          frameBounds == Rect(x1, y1, x2 - x1 + 1, y2 - y1 + 1)
          restores == disposal = "RESTORE_BGCOLOR" \/ lastDisposal = "RESTORE_BGCOLOR"
      IN [frameBounds |-> nonEmptyBounds(frameBounds),
          disposal |-> disposal,
          lastFrameBounds |-> IF restores THEN frameBounds ELSE lastFrameBounds,
          deltaImage |->
            IF restores THEN crop_image(current, bounds, frameBounds)
            ELSE crop_image([p \in 1..(bounds.w * bounds.h) |->
                               IF (p - 1) \in changed THEN current[p] ELSE 0],
                            bounds, frameBounds)]

\* GifEncoder::GifEncoder for a sprite of some canvas, and the first lines of
\* encode(): three images that nothing was written to yet
EncInit ==
  /\ \E c \in Canvases : m_spriteBounds = [w |-> c[1], h |-> c[2]]
  /\ m_hasBackground \in BOOLEAN
  /\ m_preservePaletteOrder \in BOOLEAN
  /\ m_images = [i \in 0..2 |-> <<>>]
  /\ m_previousImage = 0
  /\ m_currentImage = 1
  /\ m_nextImage = 2
  /\ m_lastFrameBounds = Rect(0, 0, m_spriteBounds.w, m_spriteBounds.h)
  /\ m_lastDisposal = "NONE"
  /\ gifFrame = 0
  /\ nframes \in 1..MaxFrames
  /\ encOp = [name |-> "new"]
  /\ calc = NoCalc
  /\ NewOctreeMap /\ m_includeMaskColorInPalette = FALSE
  /\ pals = <<>> /\ outPalette = <<>> /\ levelDeep = 8 /\ octOp = [name |-> "none"]
  /\ NoDecoder

\* the loop of encode() has a frame to write and no write failed
EncodeRunning == encOp.name \in {"new", "writeImage"} /\ gifFrame < nframes

\* a turn that swaps the previous and the next image after frame 0
swapImagesAroundCurrent(frame, previous, current, next) ==
  IF frame = 0
    THEN [previous |-> previous, current |-> next, next |-> current]
    ELSE [previous |-> next, current |-> current, next |-> previous]

\* the swaps of a turn of the loop of encode(): swap(m_previousImage,
\* m_currentImage) after frame 0, then swap(m_currentImage, m_nextImage)
swapImages(frame, previous, current, next) ==
  IF frame = 0
    THEN [previous |-> previous, current |-> next, next |-> current]
    ELSE [previous |-> current, current |-> next, next |-> previous]

\* one turn of the loop of encode(): the renderings, the swaps of the three
\* images, calculateDeltaImageFrameBoundsDisposal and the call of writeImage
EncodeFrame ==
  /\ EncodeRunning
  /\ LET hasNext == gifFrame + 1 < nframes
         \* gifFrame == 0: renderFrame(frame, m_nextImage); else swap(previous, current)
         \* swap(current, next)
         swapped == swapImages(gifFrame, m_previousImage, m_currentImage, m_nextImage)
         previous1 == swapped.previous
         current2 == swapped.current
         next2 == swapped.next
         \* the frame each image holds the rendering of (-1: none), and the
         \* renderFrame calls made so far
         holds0 == IF encOp.name = "new" THEN [i \in 0..2 |-> -1] ELSE encOp.holds
         holds1 == IF gifFrame = 0 THEN [holds0 EXCEPT ![m_nextImage] = 0] ELSE holds0
         holds2 == IF hasNext THEN [holds1 EXCEPT ![next2] = gifFrame + 1] ELSE holds1
         rendered0 == IF encOp.name = "new" THEN <<>> ELSE encOp.rendered
         rendered2 == rendered0 \o (IF gifFrame = 0 THEN <<0>> ELSE <<>>)
                        \o (IF hasNext THEN <<gifFrame + 1>> ELSE <<>>)
     IN \E first \in (IF gifFrame = 0 THEN Renderings(m_spriteBounds, m_hasBackground)
                                      ELSE {<<>>}),
           ahead \in (IF hasNext THEN Renderings(m_spriteBounds, m_hasBackground)
                                 ELSE {<<>>}),
           stale \in (IF ~hasNext /\ m_images[next2] = <<>> THEN Garbage(m_spriteBounds)
                                                           ELSE {<<>>}),
           written \in BOOLEAN :
          LET images1 == IF gifFrame = 0 THEN [m_images EXCEPT ![m_nextImage] = first]
                                         ELSE m_images
              images2 == IF hasNext THEN [images1 EXCEPT ![next2] = ahead] ELSE images1
              next == IF images2[next2] = <<>> THEN stale ELSE images2[next2]
          IN \E d \in {calculateDeltaImageFrameBoundsDisposal(gifFrame,
                         [bounds |-> m_spriteBounds, hasBackground |-> m_hasBackground,
                          preservePaletteOrder |-> m_preservePaletteOrder,
                          lastDisposal |-> m_lastDisposal,
                          lastFrameBounds |-> m_lastFrameBounds],
                         images2[previous1], images2[current2], next)} :
             /\ m_images' = images2
             /\ m_previousImage' = previous1
             /\ m_currentImage' = current2
             /\ m_nextImage' = next2
             /\ m_lastFrameBounds' = d.lastFrameBounds
             /\ m_lastDisposal' = d.disposal
             \* a GIF_ERROR of EGifPutExtension, EGifPutImageDesc or EGifPutLine
             \* in writeImage is an exception that leaves encode()
             /\ gifFrame' = IF written THEN gifFrame + 1 ELSE gifFrame
             /\ encOp' = [name |-> IF written THEN "writeImage" ELSE "exception",
                          gifFrame |-> gifFrame,
                          \* the stop flag during this turn, which encode() does not read
                          stop |-> fopStop,
                          frameBounds |-> d.frameBounds, disposal |-> d.disposal,
                          deltaImage |-> d.deltaImage,
                          hasNext |-> hasNext, previous |-> images2[previous1],
                          current |-> images2[current2], next |-> next,
                          lastDisposal |-> m_lastDisposal,
                          lastFrameBounds |-> m_lastFrameBounds,
                          holds |-> holds2, rendered |-> rendered2]
  /\ UNCHANGED <<m_spriteBounds, m_hasBackground, m_preservePaletteOrder, nframes, calc>>
  /\ UNCHANGED octVars
  /\ UNCHANGED decVars

EncNext == EncodeFrame

SpecEnc == EncInit /\ [][EncNext]_vars

\***************************************************************************
\* GifEncoder::calculatePalette, the palette of a frame when there is no
\* global colormap.  A palette is [size, reserved]: the number of its entries
\* and the indexes of the entries that addEntry(0) made; the colours the
\* optimizer gives are not looked at.
\***************************************************************************
MaxDeltaSide == 18      \* largest width and height of the delta image

\* the palette sizes tried
SampleSizes == {1, 35, 219, 220, 255, 256, 257}

\* createOptimizedPalette(image, bounds, ncolors) / PaletteOptimizer::calculate
\* on an area of that many pixels: a palette of at most ncolors entries
OptimizedSizes(ncolors, pixels) == {n \in SampleSizes : n <= ncolors /\ n <= pixels}

\* Palette::addEntry(0)
addEntry(pal) == [size |-> pal.size + 1, reserved |-> pal.reserved \cup {pal.size}]

\* calculatePalette up to the loop: n is the size of the palette of the delta
\* image, aux the size of the palette of the current image in frameBounds
calculatePaletteCall(c, n, aux) ==
  LET auxSize == IF c.disposal = "DO_NOT_DISPOSE" THEN aux ELSE n
  IN IF n = 256
       THEN IF auxSize <= 256
              THEN [c EXCEPT !.op = "return", !.branch = "current",
                             !.pal = [size |-> auxSize, reserved |-> {}],
                             !.m_transparentIndex = -1]
              ELSE [c EXCEPT !.op = "loop", !.branch = "border",
                             !.pal = [size |-> 255, reserved |-> {}],
                             !.thicknessTop = c.deltaSize.h \div 4,
                             !.thicknessLeft = c.deltaSize.w \div 4,
                             !.lastThicknessTop = c.deltaSize.h \div 4,
                             !.lastThicknessLeft = c.deltaSize.w \div 4]
     ELSE IF n <= 255
       THEN [c EXCEPT !.op = "return", !.branch = "room",
                      !.pal = addEntry([size |-> n, reserved |-> {}]),
                      !.m_transparentIndex = n]
     ELSE [c EXCEPT !.op = "return", !.branch = "none", !.pal = [size |-> n, reserved |-> {}]]

\* calculatePalette after the loop: the colours of the centre, the entry of
\* the transparent colour
calculatePaletteEnd(c, pal, lastTop, lastLeft, center) ==
  LET filled == IF pal.size < 255
                  THEN [pal EXCEPT !.size = pal.size + Min(center, 255 - pal.size)]
                  ELSE pal
  IN [c EXCEPT !.op = "return", !.pal = addEntry(filled),
               !.lastThicknessTop = lastTop, !.lastThicknessLeft = lastLeft,
               !.m_transparentIndex = filled.size]

\* one turn of the "while (true)" of calculatePalette: the optimizer fed with
\* the border is of high precision or not (hp), holds 220 colours or more or
\* not (many), calculate() gives a palette of k entries
calculatePaletteTurn(c, hp, many, k, center) ==
  LET h == c.deltaSize.h
      w == c.deltaSize.w
      t == c.thicknessTop
      l == c.thicknessLeft
      calculated == [size |-> k, reserved |-> {}]
      moved(t2, l2) == [c EXCEPT !.thicknessTop = t2, !.thicknessLeft = l2,
                                 !.lastThicknessTop = t2, !.lastThicknessLeft = l2]
  IN IF hp
       THEN IF many
              THEN calculatePaletteEnd(c, calculated, t, l, center)
            ELSE IF h - t * 2 <= h \div 4 \/ w - l * 2 <= w \div 4
              THEN calculatePaletteEnd(c, calculated, c.lastThicknessTop, c.lastThicknessLeft, center)
            ELSE IF t * 3 >= h \/ l * 3 >= w
              THEN calculatePaletteEnd(c, c.pal, c.lastThicknessTop, c.lastThicknessLeft, center)
            ELSE moved(t + t \div 2, l + l \div 2)
       ELSE IF t <= h \div 16 \/ l <= w \div 16
              THEN calculatePaletteEnd(c, calculated, c.lastThicknessTop, c.lastThicknessLeft, center)
            ELSE moved(t - t \div 2, l - l \div 2)

\* writeImage is about to call calculatePalette for a delta image of some
\* size (m_globalColormap is null; m_transparentIndex is -1 or m_bgIndex)
CalcInit ==
  /\ \E w \in 1..MaxDeltaSide, h \in 1..MaxDeltaSide,
        disposal \in {"DO_NOT_DISPOSE", "RESTORE_BGCOLOR"}, index \in {-1, 0} :
       calc = [op |-> "call", branch |-> "none", deltaSize |-> [w |-> w, h |-> h],
               disposal |-> disposal, m_transparentIndex |-> index,
               pal |-> [size |-> 0, reserved |-> {}],
               thicknessTop |-> 0, thicknessLeft |-> 0,
               lastThicknessTop |-> 0, lastThicknessLeft |-> 0]
  /\ m_spriteBounds = [w |-> 0, h |-> 0]
  /\ m_hasBackground = FALSE
  /\ m_preservePaletteOrder = FALSE
  /\ m_images = <<>>
  /\ m_previousImage = 0
  /\ m_currentImage = 0
  /\ m_nextImage = 0
  /\ m_lastFrameBounds = [x |-> 0, y |-> 0, w |-> 0, h |-> 0]
  /\ m_lastDisposal = "NONE"
  /\ gifFrame = 0
  /\ nframes = 0
  /\ encOp = [name |-> "none"]
  /\ NewOctreeMap /\ m_includeMaskColorInPalette = FALSE
  /\ pals = <<>> /\ outPalette = <<>> /\ levelDeep = 8 /\ octOp = [name |-> "none"]
  /\ NoDecoder

\* calculatePalette from its call to the loop or to its return
CalcCall ==
  /\ calc.op = "call"
  /\ \E n \in OptimizedSizes(256, calc.deltaSize.w * calc.deltaSize.h),
        aux \in OptimizedSizes(257, calc.deltaSize.w * calc.deltaSize.h) :
       calc' = calculatePaletteCall(calc, n, aux)
  /\ UNCHANGED <<m_spriteBounds, m_hasBackground, m_preservePaletteOrder, m_images,
                 m_previousImage, m_currentImage, m_nextImage, m_lastFrameBounds,
                 m_lastDisposal, gifFrame, nframes, encOp>>
  /\ UNCHANGED octVars
  /\ UNCHANGED decVars

\* one turn of the loop; the turn that breaks goes on to the return
CalcTurn ==
  /\ calc.op = "loop"
  /\ \E hp \in BOOLEAN, many \in BOOLEAN, center \in {0, 1, 35} :
       \E k \in {n \in OptimizedSizes(255, 255) : hp => (many <=> n >= 220)} :
         calc' = calculatePaletteTurn(calc, hp, many, k, center)
  /\ UNCHANGED <<m_spriteBounds, m_hasBackground, m_preservePaletteOrder, m_images,
                 m_previousImage, m_currentImage, m_nextImage, m_lastFrameBounds,
                 m_lastDisposal, gifFrame, nframes, encOp>>
  /\ UNCHANGED octVars
  /\ UNCHANGED decVars

CalcNext == CalcCall \/ CalcTurn

\* the thread that runs calculatePalette goes on running
SpecCalc == CalcInit /\ [][CalcNext]_vars /\ WF_vars(CalcNext)

\***************************************************************************
\* GIF files and GifDecoder
\*
\* A file is [SWidth, SHeight, SBackGroundColor, SColorMap, records]; a
\* colormap is a sequence of <<Red, Green, Blue>> (<<>> when there is none).
\* A record is an extension [type, code, bytes] or an image descriptor
\* [type, Left, Top, Width, Height, Interlace, ColorMap, lines], with the
\* scanlines in the order of the file.  The terminate record is the end of
\* the sequence.  Images hold their pixels row by row; a Remap and a Palette
\* are sequences (entry i at position i + 1).
\***************************************************************************
DisposalValue(d) ==
  CASE d = "NONE" -> 0
    [] d = "DO_NOT_DISPOSE" -> 1
    [] d = "RESTORE_BGCOLOR" -> 2
    [] d = "RESTORE_PREVIOUS" -> 3

interlaced_offset == <<0, 4, 2, 1>>
interlaced_jumps == <<8, 8, 4, 2>>

\* the rows of one pass of an interlaced image of height h, in order
PassRows(i, h) ==
  LET S == {y \in 0..(h - 1) : y >= interlaced_offset[i]
                               /\ (y - interlaced_offset[i]) % interlaced_jumps[i] = 0}
  IN [k \in 1..Cardinality(S) |-> CHOOSE y \in S : Cardinality({z \in S : z < y}) = k - 1]

\* the rows of an interlaced image in the order of its four passes
InterlacedRows(h) == PassRows(1, h) \o PassRows(2, h) \o PassRows(3, h) \o PassRows(4, h)

\* GifDecoder::readFrameIndexedImage: the image of the scanlines of a record
readFrameIndexedImage(rec) ==
  LET rows == IF rec.Interlace THEN InterlacedRows(rec.Height)
                               ELSE [k \in 1..rec.Height |-> k - 1]
      lineOf(y) == CHOOSE k \in 1..rec.Height : rows[k] = y
  IN [p \in 1..(rec.Width * rec.Height) |->
        rec.lines[lineOf((p - 1) \div rec.Width)][((p - 1) % rec.Width) + 1]]

colormap2rgba(colormap, i) ==
  rgba(colormap[i + 1][1], colormap[i + 1][2], colormap[i + 1][3], 255)

\* Palette::findExactMatch: the first entry of that colour other than
\* mask_index, -1 when there is none
findExactMatch(colors, c, mask_index) ==
  LET S == {i \in 1..Len(colors) : colors[i] = c /\ i - 1 # mask_index}
  IN IF S = {} THEN -1 ELSE MinOf(S) - 1

\* Palette(frame, ncolors) and Palette::resize: new entries are black
NewPalette(n) == [i \in 1..n |-> black]
ResizePalette(colors, n) == [i \in 1..n |-> IF i <= Len(colors) THEN colors[i] ELSE black]

\* GifDecoder::resetRemap
resetRemap(ncolors) == [i \in 1..ncolors |-> i - 1]

\* the elements of a set of numbers in increasing order
Ascending(S) ==
  [k \in 1..Cardinality(S) |-> CHOOSE x \in S : Cardinality({y \in S : y < x}) = k - 1]

\* GifDecoder::GifDecoder
NewGifDecoder(file) ==
  [m_sprite |-> <<>>,
   m_frameNum |-> 0,
   m_opaque |-> FALSE,
   m_disposalMethod |-> DisposalValue("NONE"),
   m_bgIndex |-> IF file.SBackGroundColor >= 0 THEN file.SBackGroundColor ELSE 0,
   m_localTransparentIndex |-> -1,
   m_frameDelay |-> 1,
   m_remap |-> <<>>,
   m_hasLocalColormaps |-> FALSE,
   m_firstLocalColormap |-> <<>>,
   m_currentImage |-> <<>>,
   m_previousImage |-> <<>>]

\* A sprite is [palettes, transparentColor, frames, background]: palettes is
\* the list of [frame, colors] in the order of their frames, frames the list
\* of [cel, duration] (cel <<>> when the frame has none).
\* Sprite::palette(frame): the position of the last palette that starts at
\* or before the frame
paletteAt(sprite, frame) ==
  MaxOf({k \in 1..Len(sprite.palettes) : sprite.palettes[k].frame <= frame})

spritePalette(sprite, frame) == sprite.palettes[paletteAt(sprite, frame)].colors

\* Sprite::setPalette(palette, false): nothing when the colours are those of
\* the palette of that frame, a copy into it when it starts at that frame, a
\* new palette starting at that frame otherwise
setPalette(sprite, frame, colors) ==
  LET k == paletteAt(sprite, frame)
  IN IF sprite.palettes[k].colors = colors THEN sprite
     ELSE IF sprite.palettes[k].frame = frame
       THEN [sprite EXCEPT !.palettes[k].colors = colors]
     ELSE [sprite EXCEPT !.palettes =
             SubSeq(sprite.palettes, 1, k) \o <<[frame |-> frame, colors |-> colors]>>
               \o SubSeq(sprite.palettes, k + 1, Len(sprite.palettes))]

\* Sprite::addFrame at the end: the new frame takes the duration of the last
addFrame(sprite) ==
  [sprite EXCEPT !.frames = Append(sprite.frames, [cel |-> <<>>, duration |-> Last(sprite.frames).duration])]

\* GifDecoder::createSprite: an indexed sprite of one frame with a palette of
\* ncolors entries, and the two canvases cleared with the background index
createSprite(d, file, rec) ==
  LET colormap == IF file.SColorMap # <<>> THEN file.SColorMap ELSE rec.ColorMap
      ncolors == IF colormap # <<>> THEN Len(colormap) ELSE 1
      canvas == [p \in 1..(file.SWidth * file.SHeight) |-> d.m_bgIndex]
  IN [d EXCEPT !.m_sprite = [pixelFormat |-> "IMAGE_INDEXED",
                             palettes |-> <<[frame |-> 0, colors |-> NewPalette(ncolors)]>>,
                             transparentColor |-> d.m_bgIndex,
                             frames |-> <<[cel |-> <<>>, duration |-> 100]>>,
                             background |-> FALSE],
               !.m_currentImage = canvas,
               !.m_previousImage = canvas]

\* GifDecoder::getFrameColormap.
\* Returns [colormap, m_hasLocalColormaps, m_firstLocalColormap]; there is no
\* colour map (an exception) when colormap is <<>>
getFrameColormap(d, file, rec) ==
  IF rec.ColorMap = <<>>
    THEN [colormap |-> file.SColorMap,
          m_hasLocalColormaps |-> d.m_hasLocalColormaps,
          m_firstLocalColormap |-> d.m_firstLocalColormap]
  ELSE IF ~d.m_hasLocalColormaps
    THEN LET first == IF file.SColorMap = <<>> /\ d.m_firstLocalColormap = <<>>
                        THEN rec.ColorMap ELSE d.m_firstLocalColormap
             global == IF file.SColorMap = <<>> THEN first ELSE file.SColorMap
         IN [colormap |-> rec.ColorMap,
             m_hasLocalColormaps |-> global # rec.ColorMap,
             m_firstLocalColormap |-> first]
  ELSE [colormap |-> rec.ColorMap,
        m_hasLocalColormaps |-> d.m_hasLocalColormaps,
        m_firstLocalColormap |-> d.m_firstLocalColormap]

\* addMissingColor without the m_remap.map(i, j) of its last line
addMissingColorNotMapped(st, i, colormap, oldPalette, frameNum, mask) ==
  LET c == colormap2rgba(colormap, i)
      found == IF frameNum > 0 THEN findExactMatch(oldPalette, c, mask) ELSE -1
      j == IF found < 0 THEN st.base ELSE found
  IN [palette |-> IF found < 0 THEN [st.palette EXCEPT ![j + 1] = c] ELSE st.palette,
      remap |-> st.remap,
      base |-> IF found < 0 THEN st.base + 1 ELSE st.base]

\* one turn of updatePalette's second loop, for colormap index i: a used
\* colour that the old palette does not hold takes the next new entry.
\* st = [palette, remap, base]
addMissingColor(st, i, colormap, oldPalette, frameNum, mask) ==
  LET c == colormap2rgba(colormap, i)
      found == IF frameNum > 0 THEN findExactMatch(oldPalette, c, mask) ELSE -1
      j == IF found < 0 THEN st.base ELSE found
  IN [palette |-> IF found < 0 THEN [st.palette EXCEPT ![j + 1] = c] ELSE st.palette,
      remap |-> [st.remap EXCEPT ![i + 1] = j],
      base |-> IF found < 0 THEN st.base + 1 ELSE st.base]

\* updatePalette's second loop over the colormap indexes lo..hi-1, in
\* increasing order ("if (!usedEntries[i]) continue")
RECURSIVE addMissingColors(_, _, _, _, _, _, _, _)
addMissingColors(st, usedEntries, colormap, oldPalette, frameNum, mask, lo, hi) ==
  IF hi <= lo THEN st
  ELSE IF hi = lo + 1
    THEN IF lo \in usedEntries
           THEN addMissingColor(st, lo, colormap, oldPalette, frameNum, mask) ELSE st
  ELSE LET half == addMissingColors(st, usedEntries, colormap, oldPalette, frameNum, mask,
                                    lo, (lo + hi) \div 2)
       IN IF half.base >= 0
            THEN addMissingColors(half, usedEntries, colormap, oldPalette, frameNum, mask,
                                  (lo + hi) \div 2, hi)
            ELSE half

\* GifDecoder::updatePalette.  Returns [threw, d].
\* usedEntries are the used indexes of the colormap, palette the palette the
\* new one starts from, found the used indexes it already holds, st the
\* [palette, remap, base] of the second loop
updatePalette(d, file, rec, frameImage) ==
  LET pixels == {frameImage[p] : p \in DOMAIN frameImage}
      mask == IF d.m_opaque THEN -1 ELSE d.m_bgIndex
      needsExtraBgColor == /\ d.m_sprite.pixelFormat = "IMAGE_INDEXED"
                           /\ ~d.m_opaque
                           /\ d.m_bgIndex # d.m_localTransparentIndex
                           /\ d.m_bgIndex \in pixels
      extra == IF needsExtraBgColor THEN 1 ELSE 0
      match(palette, colormap, i) ==
        IF d.m_frameNum > 0
          THEN findExactMatch(palette, colormap2rgba(colormap, i), mask) ELSE -1
      withExtraBgColor(st, colormap) ==
        IF needsExtraBgColor
          THEN [palette |-> [st.palette EXCEPT ![st.base + 1] = colormap2rgba(colormap, d.m_bgIndex)],
                remap |-> [st.remap EXCEPT ![d.m_bgIndex + 1] = st.base],
                base |-> st.base + 1]
          ELSE st
      missingAdded(palette, colormap, usedEntries, base, size) ==
        withExtraBgColor(
          addMissingColors([palette |-> ResizePalette(palette, size),
                            remap |-> resetRemap(Max(Len(colormap), size)),
                            base |-> base],
                           usedEntries, colormap, palette, d.m_frameNum, mask, 0, Len(colormap)),
          colormap)
      paletteSet(d1, st) ==
        [threw |-> FALSE,
         d |-> [d1 EXCEPT !.m_remap = st.remap,
                          !.m_sprite = setPalette(d.m_sprite, d.m_frameNum, st.palette)]]
      merged(d1, palette, colormap, usedEntries, found, base) ==
        IF Cardinality(found) = Cardinality(usedEntries)
          THEN [threw |-> FALSE,
                d |-> [d1 EXCEPT !.m_remap =
                         [k \in 1..Max(Len(colormap), Len(palette)) |->
                            IF (k - 1) \in found THEN match(palette, colormap, k - 1) ELSE k - 1]]]
          ELSE paletteSet(d1, missingAdded(palette, colormap, usedEntries, base,
                                           base + Cardinality(usedEntries) - Cardinality(found) + extra))
      matched(d1, palette, colormap, usedEntries) ==
        merged(d1, palette, colormap, usedEntries,
               {i \in usedEntries : match(palette, colormap, i) >= 0},
               IF d.m_frameNum = 0 THEN 0 ELSE Len(palette))
      picked(d1, colormap, usedEntries) ==
        matched(d1,
                IF d.m_frameNum = 0 THEN NewPalette(Cardinality(usedEntries) + extra)
                                    ELSE spritePalette(d.m_sprite, d.m_frameNum - 1),
                colormap, usedEntries)
      mapped(fc) ==
        IF fc.colormap = <<>> THEN [threw |-> TRUE, d |-> d]
        ELSE picked([d EXCEPT !.m_hasLocalColormaps = fc.m_hasLocalColormaps,
                              !.m_firstLocalColormap = fc.m_firstLocalColormap],
                    fc.colormap,
                    IF rec.ColorMap # <<>>
                      THEN {i \in 0..(Len(fc.colormap) - 1) : i = d.m_localTransparentIndex \/ i \in pixels}
                      ELSE 0..(Len(fc.colormap) - 1))
  IN mapped(getFrameColormap(d, file, rec))

\* whether canvas position p (canvas width w) lies in the bounds of a record
InFrameBounds(p, w, rec) ==
  LET x == (p - 1) % w
      y == (p - 1) \div w
  IN /\ x >= rec.Left /\ x < rec.Left + rec.Width
     /\ y >= rec.Top /\ y < rec.Top + rec.Height

\* the pixel of the frame image that lands on canvas position p
FramePixel(p, w, rec, frameImage) ==
  frameImage[(((p - 1) \div w) - rec.Top) * rec.Width + (((p - 1) % w) - rec.Left) + 1]

\* GifDecoder::compositeIndexedImageToIndexed: the frame image drawn on the
\* canvas through m_remap, clipped, other than its transparent pixels.
\* Remap::operator[] checks nothing: a pixel that is no index of m_remap
\* reads outside its vector
compositeIndexedImageToIndexed(d, file, rec, frameImage, outside) ==
  [d EXCEPT !.m_currentImage =
     [p \in DOMAIN d.m_currentImage |->
        IF /\ InFrameBounds(p, file.SWidth, rec)
           /\ FramePixel(p, file.SWidth, rec, frameImage) # d.m_localTransparentIndex
          THEN IF FramePixel(p, file.SWidth, rec, frameImage) < Len(d.m_remap)
                 THEN d.m_remap[FramePixel(p, file.SWidth, rec, frameImage) + 1]
                 ELSE outside
          ELSE d.m_currentImage[p]]]

\* Palette::getEntry: colour 0 out of the palette
getEntry(colors, i) == IF i >= 0 /\ i < Len(colors) THEN colors[i + 1] ELSE rgba(0, 0, 0, 0)

\* render::convert_pixel_format of an indexed image to IMAGE_RGB: the colour
\* of the palette, the transparent colour for the mask index of an image that
\* is not a background
convert_pixel_format(image, palette, is_background, maskIndex) ==
  [p \in DOMAIN image |->
     IF ~is_background /\ image[p] = maskIndex THEN rgba(0, 0, 0, 0)
     ELSE getEntry(palette, image[p])]

\* GifDecoder::convertIndexedSpriteToRgb
convertIndexedSpriteToRgb(d) ==
  [d EXCEPT
     !.m_sprite.frames =
        [f \in DOMAIN d.m_sprite.frames |->
           IF d.m_sprite.frames[f].cel = <<>> THEN d.m_sprite.frames[f]
           ELSE [d.m_sprite.frames[f] EXCEPT !.cel =
                   convert_pixel_format(@, spritePalette(d.m_sprite, f - 1), d.m_opaque, d.m_bgIndex)]],
     !.m_currentImage =
        convert_pixel_format(@, spritePalette(d.m_sprite, d.m_frameNum), d.m_opaque, d.m_bgIndex),
     !.m_previousImage =
        convert_pixel_format(@, spritePalette(d.m_sprite, Max(0, d.m_frameNum - 1)), d.m_opaque, d.m_bgIndex),
     !.m_sprite.pixelFormat = "IMAGE_RGB"]

\* GifDecoder::compositeIndexedImageToRgb: the frame image drawn on the
\* canvas in the colours of the colormap of the frame; a pixel that is no
\* index of the colormap reads outside colormap->Colors
compositeIndexedImageToRgb(d, file, rec, frameImage, outside) ==
  [d EXCEPT !.m_currentImage =
     [p \in DOMAIN d.m_currentImage |->
        IF /\ InFrameBounds(p, file.SWidth, rec)
           /\ FramePixel(p, file.SWidth, rec, frameImage) # d.m_localTransparentIndex
          THEN IF FramePixel(p, file.SWidth, rec, frameImage) < Len(getFrameColormap(d, file, rec).colormap)
                 THEN colormap2rgba(getFrameColormap(d, file, rec).colormap,
                                    FramePixel(p, file.SWidth, rec, frameImage))
                 ELSE rgba(outside, outside, outside, 255)
          ELSE d.m_currentImage[p]]]

\* a createCel that adds no cel
createCelSkipped(d) == d

\* GifDecoder::createCel: a copy of the canvas is the cel of the frame
createCel(d) ==
  [d EXCEPT !.m_sprite.frames[d.m_frameNum + 1].cel = d.m_currentImage]

\* a disposal that leaves the canvas as it is
process_disposal_methodKeeps(previous, current, disposal, rec, w, clearColor) == current

\* process_disposal_method: the canvas after the disposal of the frame
process_disposal_method(previous, current, disposal, rec, w, clearColor) ==
  IF disposal = DisposalValue("RESTORE_BGCOLOR")
    THEN [p \in DOMAIN current |-> IF InFrameBounds(p, w, rec) THEN clearColor ELSE current[p]]
  ELSE IF disposal = DisposalValue("RESTORE_PREVIOUS")
    THEN [p \in DOMAIN current |-> IF InFrameBounds(p, w, rec) THEN previous[p] ELSE current[p]]
  ELSE current

\* GifDecoder::readImageDescRecord.  error is the giflib call that returns
\* GIF_ERROR ("none" when every call succeeds).  Returns [threw, d]
readImageDescRecord(d, file, rec, error, outside) ==
  LET hasImage == ~isEmpty(Rect(rec.Left, rec.Top, rec.Width, rec.Height))
      created(d0) == IF d0.m_sprite = <<>> THEN createSprite(d0, file, rec) ELSE d0
      framed(d1) == IF Len(d1.m_sprite.frames) - 1 < d1.m_frameNum
                      THEN [d1 EXCEPT !.m_sprite = addFrame(d1.m_sprite)] ELSE d1
      opaqueSet(d2) == IF d2.m_frameNum = 0
                         THEN [d2 EXCEPT !.m_opaque = ~(d2.m_localTransparentIndex >= 0)] ELSE d2
      merged(d3, frameImage) == IF hasImage THEN updatePalette(d3, file, rec, frameImage)
                                            ELSE [threw |-> FALSE, d |-> d3]
      converted(d4) ==
        IF /\ d4.m_sprite.pixelFormat = "IMAGE_INDEXED"
           /\ Len(spritePalette(d4.m_sprite, d4.m_frameNum)) > 256
          THEN convertIndexedSpriteToRgb(d4) ELSE d4
      composed(d4, frameImage) ==
        IF ~hasImage THEN d4
        ELSE IF d4.m_sprite.pixelFormat = "IMAGE_INDEXED"
          THEN compositeIndexedImageToIndexed(d4, file, rec, frameImage, outside)
        ELSE compositeIndexedImageToRgb(d4, file, rec, frameImage, outside)
      disposed(d5, current) ==
        [d5 EXCEPT !.m_currentImage = current,
                   !.m_previousImage = current,
                   !.m_sprite.frames[d5.m_frameNum + 1].duration =
                      IF d5.m_frameDelay >= 0 THEN d5.m_frameDelay * 10 ELSE @,
                   !.m_disposalMethod = DisposalValue("NONE"),
                   !.m_localTransparentIndex = -1,
                   !.m_frameDelay = 1,
                   !.m_frameNum = d5.m_frameNum + 1]
      \* m_bgIndex as a color_t: an index, or the RGB colour of that value
      clearColor(d5) ==
        IF d5.m_sprite.pixelFormat = "IMAGE_INDEXED" THEN d5.m_bgIndex
        ELSE rgba(d5.m_bgIndex, 0, 0, 0)
      celled(d5) ==
        disposed(d5, process_disposal_method(d5.m_previousImage, d5.m_currentImage, d5.m_disposalMethod, rec, file.SWidth, clearColor(d5)))
      drawn(up, frameImage) ==
        IF up.threw THEN up
        ELSE [threw |-> FALSE, d |-> celled(createCel(composed(converted(up.d), frameImage)))]
      read(d3, frameImage) == drawn(merged(d3, frameImage), frameImage)
  IN IF error = "DGifGetImageDesc" THEN [threw |-> TRUE, d |-> d]
     ELSE IF error = "DGifGetLine" /\ hasImage THEN [threw |-> TRUE, d |-> framed(created(d))]
     ELSE read(opaqueSet(framed(created(d))),
               IF hasImage THEN readFrameIndexedImage(rec) ELSE <<>>)

GRAPHICS_EXT_FUNC_CODE == 249
APPLICATION_EXT_FUNC_CODE == 255

\* a reading of extensions that sets nothing
graphicsControlIgnored(d, rec) == d

\* the values a graphics-control extension sets (extension[k] is bytes[k + 1])
graphicsControl(d, rec) ==
  IF rec.code = GRAPHICS_EXT_FUNC_CODE /\ rec.bytes[1] >= 4
    THEN [d EXCEPT !.m_disposalMethod = (rec.bytes[2] \div 4) % 8,
                   !.m_localTransparentIndex = IF rec.bytes[2] % 2 = 1 THEN rec.bytes[5] ELSE -1,
                   !.m_frameDelay = rec.bytes[4] * 256 + rec.bytes[3]]
    ELSE d

\* GifDecoder::readExtensionRecord: DGifGetExtension, the values of the
\* extension, then the DGifGetExtensionNext loop.  Returns [threw, d]
readExtensionRecord(d, rec, error) ==
  IF error = "DGifGetExtension" THEN [threw |-> TRUE, d |-> d]
  ELSE [threw |-> error = "DGifGetExtensionNext", d |-> graphicsControl(d, rec)]

\* the giflib calls that can fail while a record is read
GifErrors(rec) ==
  {"none", "DGifGetRecordType"} \cup
    (IF rec.type = "IMAGE_DESC" THEN {"DGifGetImageDesc", "DGifGetLine"}
                                ELSE {"DGifGetExtension", "DGifGetExtensionNext"})

\* GifDecoder::readRecordType followed by GifDecoder::readRecord.
\* Returns [threw, d]
readRecord(d, file, rec, error, outside) ==
  IF error = "DGifGetRecordType" THEN [threw |-> TRUE, d |-> d]
  ELSE IF rec.type = "IMAGE_DESC" THEN readImageDescRecord(d, file, rec, error, outside)
  ELSE readExtensionRecord(d, rec, error)

\* a loader that hands over the sprite of the decoder however decode() ended
onLoadReleasesAlways(threw, ret, d) == d.m_sprite

\* GifFormat::onLoad: "if (decoder.decode()) fop->createDocument(
\* decoder.releaseSprite())"; an exception of decode() leaves onLoad before.
\* The document delivered, <<>> when there is none
onLoad(threw, ret, d) == IF ~threw /\ ret THEN d.m_sprite ELSE <<>>

\* create_remap_to_change_palette: an entry keeps its index when the new
\* palette holds the same colour there, else it moves to the exact match (or
\* to the best fit) in the new palette; entries never mapped stay 0
create_remap_to_change_palette(oldPalette, newPalette, oldMaskIndex, remapMaskIndex) ==
  LET moveMask == /\ oldMaskIndex >= 0
                  /\ remapMaskIndex
                  /\ getEntry(oldPalette, oldMaskIndex) # getEntry(newPalette, oldMaskIndex)
      maskIndex == IF moveMask
                     THEN findExactMatch(newPalette, getEntry(oldPalette, oldMaskIndex), -1)
                     ELSE oldMaskIndex
      entry(i) == IF i = oldMaskIndex THEN (IF maskIndex >= 0 THEN maskIndex ELSE 0)
                  ELSE IF i >= Len(oldPalette) THEN 0
                  ELSE IF oldPalette[i + 1] = getEntry(newPalette, i) THEN i
                  ELSE IF findExactMatch(newPalette, oldPalette[i + 1], maskIndex) >= 0
                    THEN findExactMatch(newPalette, oldPalette[i + 1], maskIndex)
                  ELSE findBestfit(newPalette, oldPalette[i + 1], maskIndex)
  IN [k \in 1..Max(Len(oldPalette), Len(newPalette)) |-> entry(k - 1)]

\* what a read outside a Remap may give: any byte (two of them here)
OutOfRemap == {0, 255}

\* doc::remap_image; a pixel outside the remap reads outside its vector
remap_image(image, remap, outside) ==
  [p \in DOMAIN image |-> IF image[p] < Len(remap) THEN remap[image[p] + 1] ELSE outside]

\* GifDecoder::remapToGlobalColormap
remapToGlobalColormap(d, colormap, outside) ==
  LET oldPalette == spritePalette(d.m_sprite, 0)
      newPalette == [i \in 1..Len(colormap) |-> colormap2rgba(colormap, i - 1)]
      remap == create_remap_to_change_palette(oldPalette, newPalette, d.m_bgIndex, d.m_opaque)
      remapped == [f \in DOMAIN d.m_sprite.frames |->
                     IF d.m_sprite.frames[f].cel = <<>> THEN d.m_sprite.frames[f]
                     ELSE [d.m_sprite.frames[f] EXCEPT !.cel = remap_image(@, remap, outside)]]
  IN [d EXCEPT !.m_sprite = setPalette([d.m_sprite EXCEPT !.frames = remapped], 0, newPalette)]

\* GifDecoder::reduceToAnOptimizedPalette: PaletteOptimizer::calculate gives
\* a palette of at most 256 entries for frame 0, here the first 256
reduceToAnOptimizedPalette(d) ==
  [d EXCEPT !.m_sprite = setPalette(d.m_sprite, 0, SubSeq(spritePalette(d.m_sprite, 0), 1, 256))]

\* the end of GifDecoder::decode, after the loop.  Returns [ret, d]
decodeEnd(d, file, outside) ==
  IF d.m_sprite = <<>> THEN [ret |-> FALSE, d |-> d]
  ELSE LET size == Len(spritePalette(d.m_sprite, 0))
           d1 == IF d.m_bgIndex >= size
                   THEN [d EXCEPT !.m_sprite.palettes[1].colors = ResizePalette(@, d.m_bgIndex + 1)]
                   ELSE d
           global == IF file.SColorMap # <<>> THEN file.SColorMap ELSE d.m_firstLocalColormap
           d2 == IF d1.m_sprite.pixelFormat = "IMAGE_INDEXED"
                   THEN IF /\ global # <<>>
                           /\ Len(global) >= Len(spritePalette(d1.m_sprite, 0))
                           /\ ~d1.m_hasLocalColormaps
                          THEN remapToGlobalColormap(d1, global, outside) ELSE d1
                 ELSE IF Len(spritePalette(d1.m_sprite, 0)) > 256
                   THEN reduceToAnOptimizedPalette(d1) ELSE d1
           d3 == IF d2.m_opaque THEN [d2 EXCEPT !.m_sprite.background = TRUE] ELSE d2
       IN [ret |-> TRUE, d |-> d3]

\***************************************************************************
\* Decoding: a file of up to MaxRecords records is read record by record by
\* decode(), while the stop flag of the file operation may be raised at any
\* moment.
\***************************************************************************
MaxRecords == 3

\* a graphics control extension as it lies in the file
GraphicsControl(disposal, transparent, index, delay) ==
  [type |-> "EXTENSION",
   code |-> GRAPHICS_EXT_FUNC_CODE,
   bytes |-> <<4, disposal * 4 + (IF transparent THEN 1 ELSE 0), delay % 256, delay \div 256, index>>]

ImageDesc(left, top, width, height, interlace, colormap, lines) ==
  [type |-> "IMAGE_DESC", Left |-> left, Top |-> top, Width |-> width, Height |-> height,
   Interlace |-> interlace, ColorMap |-> colormap, lines |-> lines]

DecGlobalMap == <<<<0, 0, 0>>, <<255, 0, 0>>>>
DecLocalMap == <<<<255, 0, 0>>, <<0, 0, 255>>>>

\* the records of the files: two graphics control extensions (clear to the
\* background with transparent index 0 and a delay of 5; restore the
\* previous with a delay of 300), a whole-canvas image and a one-pixel image
\* with a local colormap, on a canvas of 2x1
DecRecords ==
  {GraphicsControl(DisposalValue("RESTORE_BGCOLOR"), TRUE, 0, 5),
   GraphicsControl(DisposalValue("RESTORE_PREVIOUS"), FALSE, 0, 300),
   ImageDesc(0, 0, 2, 1, FALSE, <<>>, <<<<0, 1>>>>),
   ImageDesc(1, 0, 1, 1, FALSE, DecLocalMap, <<<<1>>>>)}

RECURSIVE SeqsUpTo(_, _)
SeqsUpTo(S, n) ==
  IF n = 0 THEN {<<>>}
  ELSE LET shorter == SeqsUpTo(S, n - 1)
       IN shorter \cup {Append(q, x) : q \in shorter, x \in S}

DecFiles ==
  {[SWidth |-> 2, SHeight |-> 1, SBackGroundColor |-> bg, SColorMap |-> cm, records |-> rs] :
     bg \in {0, 1}, cm \in {<<>>, DecGlobalMap}, rs \in SeqsUpTo(DecRecords, MaxRecords)}

DecInit ==
  /\ srcSprite = <<>>
  /\ gifFile \in DecFiles
  /\ gifPos = 0
  /\ fopOneFrame \in BOOLEAN
  /\ fopStop = FALSE
  /\ dec = NewGifDecoder(gifFile)
  /\ decOp = [name |-> "new"]
  /\ NewOctreeMap /\ m_includeMaskColorInPalette = FALSE
  /\ pals = <<>> /\ outPalette = <<>> /\ levelDeep = 8 /\ octOp = [name |-> "none"]
  /\ NoEncoder

\* decode() is inside its loop
DecodeRunning == decOp.name \in {"new", "record"}

\* one turn of the loop of decode() on a record other than the terminate
\* record; when the loop breaks, the rest of decode() follows
DecodeRecord ==
  /\ DecodeRunning
  /\ gifPos < Len(gifFile.records)
  /\ \E outside \in OutOfRemap, error \in GifErrors(gifFile.records[gifPos + 1]) :
     \E r \in {readRecord(dec, gifFile, gifFile.records[gifPos + 1], error, outside)} :
       IF r.threw
         THEN dec' = r.d /\ decOp' = [name |-> "exception",
                                      error |-> IF error = "none" THEN "no color map" ELSE error,
                                      document |-> onLoad(TRUE, FALSE, r.d)]
       ELSE IF fopOneFrame /\ r.d.m_frameNum > 0
         THEN \E end \in {decodeEnd(r.d, gifFile, outside)} :
                dec' = end.d /\ decOp' = [name |-> "decode", ret |-> end.ret, reason |-> "oneFrame",
                                         document |-> onLoad(FALSE, end.ret, end.d)]
       ELSE IF fopStop
         THEN \E end \in {decodeEnd(r.d, gifFile, outside)} :
                dec' = end.d /\ decOp' = [name |-> "decode", ret |-> end.ret, reason |-> "stop",
                                         document |-> onLoad(FALSE, end.ret, end.d)]
       ELSE dec' = r.d /\ decOp' = [name |-> "record"]
  /\ gifPos' = gifPos + 1
  /\ UNCHANGED <<srcSprite, gifFile, fopOneFrame, fopStop>>
  /\ UNCHANGED <<octVars, encVars>>

\* the loop of decode() reads the terminate record; the rest of decode()
DecodeTerminate ==
  /\ DecodeRunning
  /\ gifPos = Len(gifFile.records)
  /\ \E outside \in OutOfRemap, error \in {"none", "DGifGetRecordType"} :
       \E end \in {decodeEnd(dec, gifFile, outside)} :
         IF error # "none"
           THEN dec' = dec /\ decOp' = [name |-> "exception", error |-> error,
                                        document |-> onLoad(TRUE, FALSE, dec)]
           ELSE dec' = end.d /\ decOp' = [name |-> "decode", ret |-> end.ret, reason |-> "terminate",
                                          document |-> onLoad(FALSE, end.ret, end.d)]
  /\ UNCHANGED <<srcSprite, gifFile, gifPos, fopOneFrame, fopStop>>
  /\ UNCHANGED <<octVars, encVars>>

\* the user cancels the file operation, a load or a save
FopStop ==
  /\ DecodeRunning \/ EncodeRunning
  /\ ~fopStop
  /\ fopStop' = TRUE
  /\ UNCHANGED <<srcSprite, gifFile, gifPos, fopOneFrame, dec, decOp>>
  /\ UNCHANGED <<octVars, encVars>>

DecNext == DecodeRecord \/ DecodeTerminate \/ FopStop

SpecDec == DecInit /\ [][DecNext]_vars

\***************************************************************************
\* Decoding of files with a global colormap of 256 colours: a colour of a
\* local colormap, or the extra entry of the background colour, is the 257th
\***************************************************************************
BigGlobalMap == [i \in 1..256 |-> <<i - 1, 0, 0>>]

\* a graphics control extension with transparent index 1, a whole-canvas
\* image in the global colours, a one-pixel image in the blue of a local
\* colormap
BigRecords ==
  {GraphicsControl(DisposalValue("NONE"), TRUE, 1, 5),
   ImageDesc(0, 0, 2, 1, FALSE, <<>>, <<<<0, 1>>>>),
   ImageDesc(1, 0, 1, 1, FALSE, DecLocalMap, <<<<1>>>>)}

BigFiles ==
  {[SWidth |-> 2, SHeight |-> 1, SBackGroundColor |-> bg, SColorMap |-> BigGlobalMap, records |-> rs] :
     bg \in {0, 1}, rs \in SeqsUpTo(BigRecords, MaxRecords)}

BigInit ==
  /\ srcSprite = <<>>
  /\ gifFile \in BigFiles
  /\ gifPos = 0
  /\ fopOneFrame = FALSE
  /\ fopStop = FALSE
  /\ dec = NewGifDecoder(gifFile)
  /\ decOp = [name |-> "new"]
  /\ NewOctreeMap /\ m_includeMaskColorInPalette = FALSE
  /\ pals = <<>> /\ outPalette = <<>> /\ levelDeep = 8 /\ octOp = [name |-> "none"]
  /\ NoEncoder

BigNext == DecodeRecord \/ DecodeTerminate

SpecBig == BigInit /\ [][BigNext]_vars

\***************************************************************************
\* Files whose image records have rectangles without pixels or rectangles
\* that reach beyond the canvas of 2x1
\***************************************************************************
RectRecords ==
  {GraphicsControl(DisposalValue("RESTORE_BGCOLOR"), TRUE, 0, 5),
   ImageDesc(0, 0, 2, 1, FALSE, <<>>, <<<<0, 1>>>>),
   ImageDesc(1, 0, 0, 1, FALSE, <<>>, <<<<>>>>),
   ImageDesc(0, 0, 2, 0, FALSE, DecLocalMap, <<>>),
   ImageDesc(1, 0, 2, 1, FALSE, <<>>, <<<<1, 0>>>>),
   ImageDesc(0, 0, 1, 2, TRUE, DecLocalMap, <<<<1>>, <<0>>>>),
   ImageDesc(2, 1, 1, 1, FALSE, <<>>, <<<<1>>>>)}

RectFiles ==
  {[SWidth |-> 2, SHeight |-> 1, SBackGroundColor |-> bg, SColorMap |-> cm, records |-> rs] :
     bg \in {0, 1}, cm \in {<<>>, DecGlobalMap}, rs \in SeqsUpTo(RectRecords, MaxRecords)}

RectInit ==
  /\ srcSprite = <<>>
  /\ gifFile \in RectFiles
  /\ gifPos = 0
  /\ fopOneFrame \in BOOLEAN
  /\ fopStop = FALSE
  /\ dec = NewGifDecoder(gifFile)
  /\ decOp = [name |-> "new"]
  /\ NewOctreeMap /\ m_includeMaskColorInPalette = FALSE
  /\ pals = <<>> /\ outPalette = <<>> /\ levelDeep = 8 /\ octOp = [name |-> "none"]
  /\ NoEncoder

RectNext == DecodeRecord \/ DecodeTerminate

SpecRect == RectInit /\ [][RectNext]_vars

\***************************************************************************
\* Files whose frames declare a transparent index and have a local colormap
\* of three colours of which the frame uses the last, or a pixel beyond the
\* two colours of the global colormap, on a canvas of 2x1
\***************************************************************************
VisLocalMap == <<<<255, 0, 0>>, <<0, 0, 255>>, <<0, 255, 0>>>>

VisRecords ==
  {GraphicsControl(DisposalValue("DO_NOT_DISPOSE"), TRUE, 0, 5),
   GraphicsControl(DisposalValue("DO_NOT_DISPOSE"), TRUE, 1, 5),
   ImageDesc(0, 0, 2, 1, FALSE, <<>>, <<<<0, 1>>>>),
   ImageDesc(0, 0, 1, 1, FALSE, VisLocalMap, <<<<2>>>>),
   ImageDesc(1, 0, 1, 1, FALSE, VisLocalMap, <<<<1>>>>),
   ImageDesc(1, 0, 1, 1, FALSE, <<>>, <<<<3>>>>)}

VisFiles ==
  {[SWidth |-> 2, SHeight |-> 1, SBackGroundColor |-> bg, SColorMap |-> cm, records |-> rs] :
     bg \in {0, 1}, cm \in {<<>>, DecGlobalMap}, rs \in SeqsUpTo(VisRecords, MaxRecords)}

VisInit ==
  /\ srcSprite = <<>>
  /\ gifFile \in VisFiles
  /\ gifPos = 0
  /\ fopOneFrame = FALSE
  /\ fopStop = FALSE
  /\ dec = NewGifDecoder(gifFile)
  /\ decOp = [name |-> "new"]
  /\ NewOctreeMap /\ m_includeMaskColorInPalette = FALSE
  /\ pals = <<>> /\ outPalette = <<>> /\ levelDeep = 8 /\ octOp = [name |-> "none"]
  /\ NoEncoder

VisNext == DecodeRecord \/ DecodeTerminate

SpecVis == VisInit /\ [][VisNext]_vars

\***************************************************************************
\* Loads and saves with failing reads and writes and with the stop flag: a
\* file is read as above, or a sprite of one pixel is saved
\***************************************************************************
CodecInit ==
  \/ EncInit /\ m_spriteBounds.w * m_spriteBounds.h = 1
  \/ DecInit

CodecNext == EncodeFrame \/ DecodeRecord \/ DecodeTerminate \/ FopStop

SpecCodec == CodecInit /\ [][CodecNext]_vars

\***************************************************************************
\* GifEncoder: the writing of a file
\***************************************************************************
\* giflib's GifBitSize: the least i in 1..8 with 2^i >= n, 9 when there is none
GifBitSize(n) ==
  IF \E i \in 1..8 : Pow2(i) >= n
    THEN MinOf({i \in 1..8 : Pow2(i) >= n}) ELSE 9

GifBitSizeLimited(v) == Min(GifBitSize(v), 8)

\* a colormap of exactly the entries of the palette
createColorMapExact(palette) ==
  [i \in 1..Len(palette) |-> <<rgba_getr(palette[i]), rgba_getg(palette[i]), rgba_getb(palette[i])>>]

\* GifEncoder::createColorMap: 2^GifBitSizeLimited(size) entries, the red,
\* green and blue of the palette entries and black after them (the colour
\* space of the document is sRGB, whose conversion changes no colour)
createColorMap(palette) ==
  [i \in 1..Pow2(GifBitSizeLimited(Len(palette))) |->
     LET color == IF i - 1 < Len(palette) THEN palette[i] ELSE rgba(0, 0, 0, 255)
     IN <<rgba_getr(color), rgba_getg(color), rgba_getb(color)>>]

\* A sprite to save is [width, height, palette, transparentColor, pixels,
\* duration]: indexed, opaque (one background layer), one palette, one frame.
\* GifEncoder::GifEncoder for such a sprite
NewGifEncoder(sprite, interlaced, loop) ==
  LET alpha0 == {i \in 0..(Len(sprite.palette) - 1) : rgba_geta(sprite.palette[i + 1]) = 0}
      hasBackground == TRUE
  IN [m_spriteBounds |-> [w |-> sprite.width, h |-> sprite.height],
      m_hasBackground |-> hasBackground,
      m_preservePaletteOrder |-> TRUE,
      m_bitsPerPixel |-> Max(1, GifBitSizeLimited(Len(sprite.palette))),
      m_globalColormap |-> createColorMap(sprite.palette),
      m_globalColormapPalette |-> sprite.palette,
      m_interlaced |-> interlaced,
      m_loop |-> IF loop THEN 0 ELSE -1,
      m_bgIndex |-> sprite.transparentColor,
      m_transparentIndex |-> IF alpha0 # {} THEN MinOf(alpha0)
                             ELSE IF hasBackground THEN -1 ELSE sprite.transparentColor]

\* the rendering of the frame of such a sprite: the palette colour of each
\* pixel
renderIndexed(sprite) == [p \in DOMAIN sprite.pixels |-> sprite.palette[sprite.pixels[p] + 1]]

\* GifEncoder::writeLoopExtension: the first block of the extension
writeLoopExtension(loop) ==
  [type |-> "EXTENSION", code |-> APPLICATION_EXT_FUNC_CODE, bytes |-> <<11, loop % 256, (loop \div 256) % 256>>]

\* a graphics control extension whose transparency flag is never set
writeExtensionNoFlag(duration, transparentIndex, disposalMethod, fixDuration, fixLast) ==
  [type |-> "EXTENSION",
   code |-> GRAPHICS_EXT_FUNC_CODE,
   bytes |-> <<4, (disposalMethod % 8) * 4, (duration \div 10) % 256,
               ((duration \div 10) \div 256) % 256, 0>>]

\* GifEncoder::writeExtension
writeExtension(duration, transparentIndex, disposalMethod, fixDuration, fixLast) ==
  LET delay0 == duration \div 10
      delay1 == IF fixDuration THEN Max(2, delay0 \div 4) ELSE delay0
      frameDelay == IF fixLast THEN Max(2, delay1) ELSE delay1
  IN [type |-> "EXTENSION",
      code |-> GRAPHICS_EXT_FUNC_CODE,
      bytes |-> <<4,
                  (disposalMethod % 8) * 4 + (IF transparentIndex >= 0 THEN 1 ELSE 0),
                  frameDelay % 256,
                  (frameDelay \div 256) % 256,
                  IF transparentIndex >= 0 THEN transparentIndex ELSE 0>>]

\* the index writeImage gives to a pixel of the delta image
frameIndex(color, framePalette, transparentIndex, bgIndex) ==
  IF rgba_geta(color) >= 128
    THEN LET c == rgba(rgba_getr(color), rgba_getg(color), rgba_getb(color), 255)
             i == findExactMatch(framePalette, c, transparentIndex)
         IN IF i < 0 THEN findBestfit(framePalette, c, transparentIndex) ELSE i
  ELSE IF transparentIndex >= 0 THEN transparentIndex ELSE bgIndex

\* the pixels of frameImage: the index of each pixel of the delta image
framePixels(enc, framePalette, deltaImage) ==
  [p \in DOMAIN deltaImage |->
     frameIndex(deltaImage[p], framePalette, enc.m_transparentIndex, enc.m_bgIndex)]

\* a loop that gives every entry of the palette its own index
compactRemapKeepsIndexes(size, usedColors) == [i \in 0..255 |-> i]

\* "for (i=0, j=0; i<framePalette.size(); ++i) if (usedColors[i]) remap.map(i, j++)"
\* on the identity Remap(256)
compactRemap(size, usedColors) ==
  [i \in 0..255 |->
     IF i < size /\ i \in usedColors
       THEN Cardinality({k \in usedColors : k < i}) ELSE i]

\* Palette reducedPalette(0, usedNColors) with the used entries of the frame
\* palette set in order: usedColors was resized for an index beyond the
\* palette, which counts in picks() and has no entry set (black is left)
reducedPaletteOf(framePalette, usedColors) ==
  LET used == Ascending({i \in usedColors : i < Len(framePalette)})
  IN [j \in 1..Cardinality(usedColors) |->
        IF j <= Len(used) THEN framePalette[used[j] + 1] ELSE rgba(0, 0, 0, 255)]

\* the Remap of writeImage
frameRemap(enc, framePalette, usedColors) ==
  LET remap0 == IF enc.m_globalColormap # <<>> THEN [i \in 0..255 |-> i]
                ELSE compactRemap(Len(framePalette), usedColors)
      localTransparent == IF enc.m_transparentIndex >= 0 THEN remap0[enc.m_transparentIndex]
                          ELSE -1
  IN [i \in 0..255 |->
        IF localTransparent >= 0 /\ i = enc.m_transparentIndex THEN localTransparent
        ELSE remap0[i]]

\* GifEncoder::writeImage: the graphics control extension and the image
\* record of a frame.  enc holds the members of the encoder, deltaImage has
\* the size of frameBounds
writeImage(enc, framePalette, deltaImage, frameBounds, disposal, duration, fix) ==
  LET frameImage == framePixels(enc, framePalette, deltaImage)
      usedColors == {frameImage[p] : p \in DOMAIN frameImage}
      hasGlobal == enc.m_globalColormap # <<>>
      remap == frameRemap(enc, framePalette, usedColors)
      colormap == IF hasGlobal THEN enc.m_globalColormap
                  ELSE createColorMap(reducedPaletteOf(framePalette, usedColors))
      localTransparent == IF enc.m_transparentIndex >= 0 THEN remap[enc.m_transparentIndex] ELSE -1
      rows == IF enc.m_interlaced THEN InterlacedRows(frameBounds.h)
              ELSE [k \in 1..frameBounds.h |-> k - 1]
      lines == [k \in 1..frameBounds.h |->
                  [x \in 1..frameBounds.w |-> remap[frameImage[rows[k] * frameBounds.w + x]]]]
  IN <<writeExtension(duration, localTransparent, DisposalValue(disposal), fix.duration, fix.last),
       [type |-> "IMAGE_DESC", Left |-> frameBounds.x, Top |-> frameBounds.y,
        Width |-> frameBounds.w, Height |-> frameBounds.h,
        Interlace |-> enc.m_interlaced,
        ColorMap |-> IF hasGlobal THEN <<>> ELSE colormap,
        lines |-> lines]>>

\***************************************************************************
\* GifEncoder::writeImage on the delta image of a frame, for the encoders
\* the constructor makes of indexed sprites (global colormap) and for the
\* palettes calculatePalette gives (local colormap)
\***************************************************************************
MaxWrColors == 2        \* entries of the palette of the sprite
MaxWrPixels == 2        \* pixels of the delta image (w * h)
MaxWrIndex == 3         \* largest transparentColor() of the sprite

transparent == rgba(0, 0, 0, 0)
WrColors == {red, blue}

\* the members the constructor sets for an indexed sprite of one palette
\* whose layers need no blending; create_palette_from_sprite gives the
\* colours of the sprite
newGlobalEncoder(pal, tc, hasBackground, preserveOption, interlaced) ==
  LET preserve == IF hasBackground THEN TRUE ELSE preserveOption
      alpha0 == {i \in 0..(Len(pal) - 1) : rgba_geta(pal[i + 1]) = 0}
      fresh == alpha0 = {} /\ ~preserve /\ ~hasBackground
      palette == IF fresh THEN Append(pal, transparent) ELSE pal
  IN [m_hasBackground |-> hasBackground,
      m_preservePaletteOrder |-> preserve,
      m_interlaced |-> interlaced,
      m_bgIndex |-> tc,
      m_globalColormapPalette |-> palette,
      m_globalColormap |-> createColorMap(palette),
      m_transparentIndex |-> IF alpha0 # {} THEN MinOf(alpha0)
                             ELSE IF fresh THEN Len(palette) - 1
                             ELSE IF hasBackground THEN -1 ELSE tc]

\* the members the constructor sets when no global colormap is made (RGB
\* sprites, several palettes, blended layers)
newLocalEncoder(pal, hasBackground, interlaced) ==
  [m_hasBackground |-> hasBackground,
   m_preservePaletteOrder |-> FALSE,
   m_interlaced |-> interlaced,
   m_bgIndex |-> 0,
   m_globalColormapPalette |-> pal,
   m_globalColormap |-> <<>>,
   m_transparentIndex |-> IF hasBackground THEN -1 ELSE 0]

PalettesOf(colors, least) == UNION {[1..n -> colors] : n \in least..MaxWrColors}

WrEncoders ==
  {newGlobalEncoder(pal, tc, hasBackground, preserveOption, interlaced) :
     pal \in {q \in PalettesOf(WrColors \cup {transparent}, 1) :
                \E i \in DOMAIN q : rgba_geta(q[i]) = 255},
     tc \in 0..MaxWrIndex, hasBackground \in BOOLEAN, preserveOption \in BOOLEAN,
     interlaced \in BOOLEAN}
  \cup {newLocalEncoder(pal, hasBackground, interlaced) :
          pal \in PalettesOf(WrColors, 1), hasBackground \in BOOLEAN, interlaced \in BOOLEAN}

\* frame bounds of at most MaxWrPixels pixels at the origin
WrBounds ==
  {Rect(0, 0, c[1], c[2]) :
     c \in {d \in (1..MaxWrPixels) \X (1..MaxWrPixels) : d[1] * d[2] <= MaxWrPixels}}

\* the delta images of a frame: a sprite with a global colormap is rendered
\* in the colours of its palette, and the delta of an opaque one (palette
\* order preserved) is a crop of the current image
DeltaImages(enc, frameBounds) ==
  LET opaque == IF enc.m_globalColormap # <<>>
                  THEN {enc.m_globalColormapPalette[i] : i \in DOMAIN enc.m_globalColormapPalette}
                         \cap WrColors
                  ELSE WrColors
      pixels == IF enc.m_globalColormap # <<>> /\ enc.m_hasBackground
                  THEN opaque ELSE opaque \cup {transparent}
  IN [1..(frameBounds.w * frameBounds.h) -> pixels]

\* what calculatePalette returns for a delta image, with the value it gives
\* m_transparentIndex: the colours of the image and one more entry for the
\* transparent colour, or (the way of 256 colours, which are fewer here) the
\* colours alone and no transparent index
CalculatedPalettes(deltaImage) ==
  LET least == IF \E p \in DOMAIN deltaImage : rgba_geta(deltaImage[p]) >= 128 THEN 1 ELSE 0
  IN {[palette |-> Append(pal, transparent), m_transparentIndex |-> Len(pal)] :
        pal \in PalettesOf(WrColors, least)}
     \cup {[palette |-> pal, m_transparentIndex |-> -1] : pal \in PalettesOf(WrColors, 1)}

WrInit ==
  /\ \E enc \in WrEncoders : encOp = [name |-> "GifEncoder", enc |-> enc]
  /\ calc = NoCalc
  /\ m_spriteBounds = [w |-> 0, h |-> 0]
  /\ m_hasBackground = FALSE
  /\ m_preservePaletteOrder = FALSE
  /\ m_images = <<>>
  /\ m_previousImage = 0
  /\ m_currentImage = 0
  /\ m_nextImage = 0
  /\ m_lastFrameBounds = [x |-> 0, y |-> 0, w |-> 0, h |-> 0]
  /\ m_lastDisposal = "NONE"
  /\ gifFrame = 0
  /\ nframes = 0
  /\ NewOctreeMap /\ m_includeMaskColorInPalette = FALSE
  /\ pals = <<>> /\ outPalette = <<>> /\ levelDeep = 8 /\ octOp = [name |-> "none"]
  /\ NoDecoder

\* the state after writeImage(gifFrame, frame, frameBounds, disposal, false)
\* with the members enc, the frame palette and the delta image
Written(enc, framePalette, deltaImage, frameBounds, disposal) ==
  [name |-> "writeImage", enc |-> enc, framePalette |-> framePalette,
   deltaImage |-> deltaImage,
   frameImage |-> framePixels(enc, framePalette, deltaImage),
   records |-> writeImage(enc, framePalette, deltaImage, frameBounds, disposal, 100,
                          [duration |-> FALSE, last |-> FALSE])]

\* writeImage of an encoder that has a global colormap
WriteGlobalFrame ==
  /\ encOp.name = "GifEncoder"
  /\ encOp.enc.m_globalColormap # <<>>
  /\ \E frameBounds \in WrBounds, disposal \in {"DO_NOT_DISPOSE", "RESTORE_BGCOLOR"} :
       \E deltaImage \in DeltaImages(encOp.enc, frameBounds) :
         encOp' = Written(encOp.enc, encOp.enc.m_globalColormapPalette, deltaImage,
                          frameBounds, disposal)
  /\ UNCHANGED <<m_spriteBounds, m_hasBackground, m_preservePaletteOrder, m_images,
                 m_previousImage, m_currentImage, m_nextImage, m_lastFrameBounds,
                 m_lastDisposal, gifFrame, nframes, calc>>
  /\ UNCHANGED octVars
  /\ UNCHANGED decVars

\* writeImage of an encoder without global colormap: calculatePalette gives
\* the frame palette and sets m_transparentIndex
WriteLocalFrame ==
  /\ encOp.name = "GifEncoder"
  /\ encOp.enc.m_globalColormap = <<>>
  /\ \E frameBounds \in WrBounds, disposal \in {"DO_NOT_DISPOSE", "RESTORE_BGCOLOR"} :
       \E deltaImage \in DeltaImages(encOp.enc, frameBounds) :
         \E c \in CalculatedPalettes(deltaImage) :
           encOp' = Written([encOp.enc EXCEPT !.m_transparentIndex = c.m_transparentIndex],
                            c.palette, deltaImage, frameBounds, disposal)
  /\ UNCHANGED <<m_spriteBounds, m_hasBackground, m_preservePaletteOrder, m_images,
                 m_previousImage, m_currentImage, m_nextImage, m_lastFrameBounds,
                 m_lastDisposal, gifFrame, nframes, calc>>
  /\ UNCHANGED octVars
  /\ UNCHANGED decVars

WrNext == WriteGlobalFrame \/ WriteLocalFrame

SpecWrite == WrInit /\ [][WrNext]_vars

\***************************************************************************
\* The graphics control extension GifEncoder::writeExtension writes for a
\* frame (no duration fix), read back by GifDecoder in front of an image of
\* one pixel
\***************************************************************************
ExtDisposals == {DisposalValue("NONE"), DisposalValue("DO_NOT_DISPOSE"),
                 DisposalValue("RESTORE_BGCOLOR"), DisposalValue("RESTORE_PREVIOUS")}
ExtIndexes == {-1, 0, 1, 255}
ExtDurations == {0, 9, 10, 15, 100, 2559, 2565, 655359}

ExtInit ==
  /\ NewOctreeMap /\ m_includeMaskColorInPalette = FALSE
  /\ pals = <<>> /\ outPalette = <<>> /\ levelDeep = 8 /\ octOp = [name |-> "none"]
  /\ NoEncoder
  /\ NoDecoder

\* writeExtension(gifFrame, frame, transparentIndex, disposalMethod, false)
\* for a frame of some duration, with fix_last_frame_duration off; the file
\* is then opened by a GifDecoder
WriteExtension ==
  /\ encOp.name = "none"
  /\ \E disposal \in ExtDisposals, index \in ExtIndexes, duration \in ExtDurations :
       \E file \in {[SWidth |-> 1, SHeight |-> 1, SBackGroundColor |-> 0,
                     SColorMap |-> DecGlobalMap,
                     records |-> <<writeExtension(duration, index, disposal, FALSE, FALSE),
                                   ImageDesc(0, 0, 1, 1, FALSE, <<>>, <<<<1>>>>)>>]} :
         /\ encOp' = [name |-> "writeExtension", duration |-> duration,
                      transparentIndex |-> index, disposalMethod |-> disposal]
         /\ gifFile' = file
         /\ dec' = NewGifDecoder(file)
         /\ decOp' = [name |-> "new"]
  /\ UNCHANGED <<m_spriteBounds, m_hasBackground, m_preservePaletteOrder, m_images,
                 m_previousImage, m_currentImage, m_nextImage, m_lastFrameBounds,
                 m_lastDisposal, gifFrame, nframes, calc>>
  /\ UNCHANGED <<srcSprite, gifPos, fopOneFrame, fopStop>>
  /\ UNCHANGED octVars

ExtNext == WriteExtension \/ DecodeRecord \/ DecodeTerminate

SpecExt == ExtInit /\ [][ExtNext]_vars

\***************************************************************************
\* The graphics control extension of each frame of an animation, with
\* fix_last_frame_duration (GifEncoderDurationFix) on or off
\***************************************************************************
MaxFixFrames == 3       \* frames of the animation

FixDurations == ExtDurations \cup {79, 120}

\* a fix that encode() asks for every frame
needsFixEveryFrame(fix, frame, frames) == fix

\* "fix_last_frame_duration && gifFrame == nframes-1" of encode()
needsFix(fix, frame, frames) == fix /\ frame = frames - 1

\* the turn of the loop of encode() for one frame of an animation, as far as
\* writeImage's writeExtension
WriteFrameExtension ==
  /\ encOp.name = "none"
  /\ \E disposal \in ExtDisposals, index \in ExtIndexes, duration \in FixDurations,
        fix \in BOOLEAN, frames \in 1..MaxFixFrames :
       \E frame \in 0..(frames - 1) :
         /\ encOp' = [name |-> "writeExtension", duration |-> duration,
                      transparentIndex |-> index, disposalMethod |-> disposal,
                      fix_last_frame_duration |-> fix,
                      record |-> writeExtension(duration, index, disposal,
                                                needsFix(fix, frame, frames), fix)]
         /\ gifFrame' = frame
         /\ nframes' = frames
  /\ UNCHANGED <<m_spriteBounds, m_hasBackground, m_preservePaletteOrder, m_images,
                 m_previousImage, m_currentImage, m_nextImage, m_lastFrameBounds,
                 m_lastDisposal, calc>>
  /\ UNCHANGED decVars
  /\ UNCHANGED octVars

FixNext == WriteFrameExtension

SpecFix == ExtInit /\ [][FixNext]_vars

\***************************************************************************
\* GifEncoder::encode: the calls that write the file, one at a time.  The
\* file is the list of the calls made, each [call, frame, arg]: arg is the
\* code of an extension, the height of an image descriptor, the row of a
\* scanline; frame is gifFrame, -1 outside the loop over the frames.
\***************************************************************************
MaxOutFrames == 2       \* frames of the animation
MaxOutLines == 3        \* height of the canvas

\* an encode() whose writeImage writes the image descriptor, then the
\* extension
nextCallDescriptorFirst(op, frame, frames) ==
  IF op.name = "GifEncoder" THEN "writeHeader"
  ELSE IF op.name = "writeHeader" /\ op.m_loop >= 0 THEN "writeLoopExtension"
  ELSE IF op.name = "EGifPutImageDesc" THEN "writeExtension"
  ELSE IF op.name \in {"writeExtension", "EGifPutLine"} /\ op.lines < op.h
    THEN "EGifPutLine"
  ELSE IF frame < frames THEN "EGifPutImageDesc"
  ELSE "return"

\* the call that encode() makes after the call op.name: writeHeader, the
\* loop extension "if (m_loop >= 0)", then for each frame writeImage's
\* writeExtension, EGifPutImageDesc and an EGifPutLine for each of the
\* frameBounds.h rows (op.h; op.lines of them are written), then "return true"
nextCall(op, frame, frames) ==
  IF op.name = "GifEncoder" THEN "writeHeader"
  ELSE IF op.name = "writeHeader" /\ op.m_loop >= 0 THEN "writeLoopExtension"
  ELSE IF op.name = "writeExtension" THEN "EGifPutImageDesc"
  ELSE IF op.name \in {"EGifPutImageDesc", "EGifPutLine"} /\ op.lines < op.h
    THEN "EGifPutLine"
  ELSE IF frame < frames THEN "writeExtension"
  ELSE "return"

\* GifEncoder::GifEncoder for a sprite of some frames, with the options of
\* the user for the loop and the interlacing
OutInit ==
  /\ m_spriteBounds = [w |-> 1, h |-> MaxOutLines]
  /\ m_hasBackground = FALSE
  /\ m_preservePaletteOrder = FALSE
  /\ m_images = [i \in 0..2 |-> <<>>]
  /\ m_previousImage = 0
  /\ m_currentImage = 1
  /\ m_nextImage = 2
  /\ m_lastFrameBounds = Rect(0, 0, m_spriteBounds.w, m_spriteBounds.h)
  /\ m_lastDisposal = "NONE"
  /\ gifFrame = 0
  /\ nframes \in 1..MaxOutFrames
  /\ \E loop \in {-1, 0}, interlaced \in BOOLEAN :
       encOp = [name |-> "GifEncoder", m_loop |-> loop, m_interlaced |-> interlaced,
                h |-> 0, lines |-> 0]
  /\ calc = NoCalc
  /\ srcSprite = <<>>
  /\ gifFile = <<>>
  /\ gifPos = 0
  /\ fopOneFrame = FALSE
  /\ fopStop = FALSE
  /\ dec = <<>>
  /\ decOp = [name |-> "none"]
  /\ NewOctreeMap /\ m_includeMaskColorInPalette = FALSE
  /\ pals = <<>> /\ outPalette = <<>> /\ levelDeep = 8 /\ octOp = [name |-> "none"]

\* encode() is at the call named: the call writes its item and op is what is
\* known after it, or the call gives GIF_ERROR and an exception leaves
\* encode()
OutCall(name, item, op, frame) ==
  /\ encOp.name \notin {"encode", "exception"}
  /\ nextCall(encOp, gifFrame, nframes) = name
  /\ \E error \in BOOLEAN :
       IF error
         THEN /\ encOp' = [encOp EXCEPT !.name = "exception"]
              /\ UNCHANGED <<gifFile, gifFrame>>
         ELSE /\ encOp' = op
              /\ gifFile' = Append(gifFile, item)
              /\ gifFrame' = frame
  /\ UNCHANGED <<m_spriteBounds, m_hasBackground, m_preservePaletteOrder, m_images,
                 m_previousImage, m_currentImage, m_nextImage, m_lastFrameBounds,
                 m_lastDisposal, nframes, calc>>
  /\ UNCHANGED <<srcSprite, gifPos, fopOneFrame, fopStop, dec, decOp>>
  /\ UNCHANGED octVars

\* GifEncoder::writeHeader
OutWriteHeader ==
  OutCall("writeHeader", [call |-> "EGifPutScreenDesc", frame |-> -1, arg |-> 0],
          [encOp EXCEPT !.name = "writeHeader"], gifFrame)

\* GifEncoder::writeLoopExtension
OutWriteLoopExtension ==
  OutCall("writeLoopExtension",
          [call |-> "EGifPutExtension", frame |-> -1, arg |-> APPLICATION_EXT_FUNC_CODE],
          [encOp EXCEPT !.name = "writeLoopExtension"], gifFrame)

\* the turn of the loop up to writeExtension: frameBounds is the canvas for
\* frame 0 and a rectangle of the canvas for the frames after it
OutWriteExtension ==
  \E h \in (IF gifFrame = 0 THEN {m_spriteBounds.h} ELSE 1..m_spriteBounds.h) :
    OutCall("writeExtension",
            [call |-> "EGifPutExtension", frame |-> gifFrame, arg |-> GRAPHICS_EXT_FUNC_CODE],
            [encOp EXCEPT !.name = "writeExtension", !.h = h, !.lines = 0], gifFrame)

\* writeImage: EGifPutImageDesc
OutPutImageDesc ==
  OutCall("EGifPutImageDesc",
          [call |-> "EGifPutImageDesc", frame |-> gifFrame, arg |-> encOp.h],
          [encOp EXCEPT !.name = "EGifPutImageDesc"], gifFrame)

\* writeImage: an EGifPutLine of the loops over the rows; the last row ends
\* the turn of the loop of encode()
OutPutLine ==
  OutCall("EGifPutLine",
          [call |-> "EGifPutLine", frame |-> gifFrame,
           arg |-> IF encOp.m_interlaced THEN InterlacedRows(encOp.h)[encOp.lines + 1]
                                         ELSE encOp.lines],
          [encOp EXCEPT !.name = "EGifPutLine", !.lines = @ + 1],
          IF encOp.lines + 1 = encOp.h THEN gifFrame + 1 ELSE gifFrame)

\* "return true" of encode()
OutReturn ==
  /\ encOp.name \notin {"encode", "exception"}
  /\ nextCall(encOp, gifFrame, nframes) = "return"
  /\ encOp' = [encOp EXCEPT !.name = "encode"]
  /\ UNCHANGED <<m_spriteBounds, m_hasBackground, m_preservePaletteOrder, m_images,
                 m_previousImage, m_currentImage, m_nextImage, m_lastFrameBounds,
                 m_lastDisposal, gifFrame, nframes, calc>>
  /\ UNCHANGED decVars
  /\ UNCHANGED octVars

OutNext ==
  \/ OutWriteHeader
  \/ OutWriteLoopExtension
  \/ OutWriteExtension
  \/ OutPutImageDesc
  \/ OutPutLine
  \/ OutReturn

SpecOut == OutInit /\ [][OutNext]_vars

\***************************************************************************
\* Round trip: an opaque indexed sprite of one frame is saved by GifEncoder
\* and the file is read back by GifDecoder.
\***************************************************************************
MaxRtColors == 3

RtColors == {black, red, blue}

\* the sprites saved: a canvas of 1x3, a palette of up to MaxRtColors opaque
\* colours (repeated or not), any pixels of the palette
RtSprites ==
  UNION {{[width |-> 1, height |-> 3, palette |-> pal, transparentColor |-> tc,
           pixels |-> px, duration |-> 100] :
            pal \in [1..n -> RtColors], tc \in {0, n - 1}, px \in [1..3 -> 0..(n - 1)]} :
         n \in 1..MaxRtColors}

RtInit ==
  /\ srcSprite \in RtSprites
  /\ gifFile = <<>>
  /\ gifPos = 0
  /\ fopOneFrame = FALSE
  /\ fopStop = FALSE
  /\ dec = <<>>
  /\ decOp = [name |-> "none"]
  /\ NewOctreeMap /\ m_includeMaskColorInPalette = FALSE
  /\ pals = <<>> /\ outPalette = <<>> /\ levelDeep = 8 /\ octOp = [name |-> "none"]
  /\ NoEncoder

\* GifEncoder::GifEncoder and encode() on the sprite, with the options of
\* the user, then GifDecoder::GifDecoder on the file written
EncodeSprite ==
  /\ srcSprite # <<>>
  /\ encOp.name = "none"
  /\ \E interlaced \in BOOLEAN, loop \in BOOLEAN, fixLast \in BOOLEAN :
       LET enc == NewGifEncoder(srcSprite, interlaced, loop)
           image == renderIndexed(srcSprite)
           d == calculateDeltaImageFrameBoundsDisposal(0,
                  [bounds |-> enc.m_spriteBounds, hasBackground |-> enc.m_hasBackground,
                   preservePaletteOrder |-> enc.m_preservePaletteOrder,
                   lastDisposal |-> "NONE",
                   lastFrameBounds |-> Rect(0, 0, enc.m_spriteBounds.w, enc.m_spriteBounds.h)],
                  <<>>, image, <<>>)
           records == (IF enc.m_loop >= 0 THEN <<writeLoopExtension(enc.m_loop)>> ELSE <<>>)
                        \o writeImage(enc, enc.m_globalColormapPalette, image, d.frameBounds,
                                      d.disposal, srcSprite.duration,
                                      [duration |-> fixLast, last |-> fixLast])
           file == [SWidth |-> enc.m_spriteBounds.w, SHeight |-> enc.m_spriteBounds.h,
                    SBackGroundColor |-> enc.m_bgIndex, SColorMap |-> enc.m_globalColormap,
                    records |-> records]
       IN /\ m_spriteBounds' = enc.m_spriteBounds
          /\ m_hasBackground' = enc.m_hasBackground
          /\ m_preservePaletteOrder' = enc.m_preservePaletteOrder
          /\ m_images' = [i \in 0..2 |-> IF i = 2 THEN image ELSE <<>>]
          /\ m_previousImage' = 0
          /\ m_currentImage' = 2
          /\ m_nextImage' = 1
          /\ m_lastFrameBounds' = d.lastFrameBounds
          /\ m_lastDisposal' = d.disposal
          /\ gifFrame' = 1
          /\ nframes' = 1
          /\ encOp' = [name |-> "encode", interlaced |-> interlaced, loop |-> loop,
                       transparentIndex |-> enc.m_transparentIndex]
          /\ gifFile' = file
          /\ dec' = NewGifDecoder(file)
          /\ decOp' = [name |-> "new"]
  /\ UNCHANGED <<srcSprite, gifPos, fopOneFrame, fopStop, calc>>
  /\ UNCHANGED octVars

RtNext == EncodeSprite \/ DecodeRecord \/ DecodeTerminate

SpecRt == RtInit /\ [][RtNext]_vars

\***************************************************************************
\* The loops over the rows of a frame: GifEncoder::writeImage puts the
\* scanlines in the file, GifDecoder::readFrameIndexedImage gets them.  A
\* position of the loops is [i, y]: the pass and the row (i stays 0 when the
\* frame is not interlaced); the loops are over at [i |-> 4] and at y = h.
\* The frame is one pixel wide and row y holds the pixel y, so that every row
\* differs from the others; its indexes are those of the global colormap
\* (remap[i] = i).
\***************************************************************************
MaxLaceHeight == 9      \* frameBounds.h

RECURSIVE firstLine(_, _)
\* "for (i..; i<4; ++i) for (y = interlaced_offset[i]; y < frameBounds.h; ..)":
\* the first turn of the inner loop from pass i on
firstLine(i, h) ==
  IF i >= 4 THEN [i |-> 4, y |-> 0]
  ELSE IF interlaced_offset[i + 1] < h THEN [i |-> i, y |-> interlaced_offset[i + 1]]
  ELSE firstLine(i + 1, h)

\* loops that jump 8 rows in every pass
nextLineJumpsEight(interlaced, pos, h) ==
  IF interlaced
    THEN IF pos.y + 8 < h THEN [pos EXCEPT !.y = @ + 8] ELSE firstLine(pos.i + 1, h)
    ELSE [pos EXCEPT !.y = @ + 1]

\* the turn after the turn at pos: "y += interlaced_jumps[i]" and the passes
\* after it, or "++y"
nextLine(interlaced, pos, h) ==
  IF interlaced
    THEN IF pos.y + interlaced_jumps[pos.i + 1] < h
           THEN [pos EXCEPT !.y = @ + interlaced_jumps[pos.i + 1]]
           ELSE firstLine(pos.i + 1, h)
    ELSE [pos EXCEPT !.y = @ + 1]

\* the first turn of the loops
startLine(interlaced, h) == IF interlaced THEN firstLine(0, h) ELSE [i |-> 0, y |-> 0]

\* the loops are over
linesDone(interlaced, pos, h) == IF interlaced THEN pos.i >= 4 ELSE pos.y >= h

\* writeImage is after EGifPutImageDesc for a frame of some height; the
\* decoder has made the image of the frame, whose rows hold nothing yet (-1)
LaceInit ==
  /\ \E h \in 1..MaxLaceHeight, interlaced \in BOOLEAN :
       /\ encOp = [name |-> "EGifPutImageDesc", m_interlaced |-> interlaced, h |-> h,
                   frameImage |-> [y \in 1..h |-> y - 1],
                   pos |-> startLine(interlaced, h), rows |-> <<>>]
       /\ dec = [name |-> "DGifGetImageDesc", Interlace |-> interlaced, h |-> h,
                 frameImage |-> [y \in 1..h |-> -1],
                 pos |-> startLine(interlaced, h), rows |-> <<>>]
       /\ m_spriteBounds = [w |-> 1, h |-> h]
  /\ m_hasBackground = FALSE
  /\ m_preservePaletteOrder = FALSE
  /\ m_images = <<>>
  /\ m_previousImage = 0
  /\ m_currentImage = 0
  /\ m_nextImage = 0
  /\ m_lastFrameBounds = [x |-> 0, y |-> 0, w |-> 0, h |-> 0]
  /\ m_lastDisposal = "NONE"
  /\ gifFrame = 0
  /\ nframes = 1
  /\ calc = NoCalc
  /\ srcSprite = <<>>
  /\ gifFile = <<>>
  /\ gifPos = 0
  /\ fopOneFrame = FALSE
  /\ fopStop = FALSE
  /\ decOp = [name |-> "none"]
  /\ NewOctreeMap /\ m_includeMaskColorInPalette = FALSE
  /\ pals = <<>> /\ outPalette = <<>> /\ levelDeep = 8 /\ octOp = [name |-> "none"]

\* a turn of the loops of writeImage: the scanline of row y is put in the
\* file, or EGifPutLine gives GIF_ERROR and the exception leaves writeImage
LacePutLine ==
  /\ encOp.name \in {"EGifPutImageDesc", "EGifPutLine"}
  /\ ~linesDone(encOp.m_interlaced, encOp.pos, encOp.h)
  /\ \E error \in BOOLEAN :
       IF error
         THEN /\ encOp' = [encOp EXCEPT !.name = "exception"]
              /\ UNCHANGED gifFile
         ELSE /\ encOp' = [encOp EXCEPT !.name = "EGifPutLine",
                                        !.rows = Append(@, encOp.pos.y),
                                        !.pos = nextLine(encOp.m_interlaced, encOp.pos, encOp.h)]
              /\ gifFile' = Append(gifFile, encOp.frameImage[encOp.pos.y + 1])
  /\ UNCHANGED <<m_spriteBounds, m_hasBackground, m_preservePaletteOrder, m_images,
                 m_previousImage, m_currentImage, m_nextImage, m_lastFrameBounds,
                 m_lastDisposal, gifFrame, nframes, calc>>
  /\ UNCHANGED <<srcSprite, gifPos, fopOneFrame, fopStop, dec, decOp>>
  /\ UNCHANGED octVars

\* the loops of writeImage are over
LaceWritten ==
  /\ encOp.name \in {"EGifPutImageDesc", "EGifPutLine"}
  /\ linesDone(encOp.m_interlaced, encOp.pos, encOp.h)
  /\ encOp' = [encOp EXCEPT !.name = "writeImage"]
  /\ UNCHANGED <<m_spriteBounds, m_hasBackground, m_preservePaletteOrder, m_images,
                 m_previousImage, m_currentImage, m_nextImage, m_lastFrameBounds,
                 m_lastDisposal, gifFrame, nframes, calc>>
  /\ UNCHANGED decVars
  /\ UNCHANGED octVars

\* a turn of the loops of readFrameIndexedImage on the file writeImage
\* wrote: DGifGetLine stores the next scanline of the file at row y, or gives
\* GIF_ERROR (always, once the file has no scanline left)
LaceGetLine ==
  /\ encOp.name = "writeImage"
  /\ dec.name \in {"DGifGetImageDesc", "DGifGetLine"}
  /\ ~linesDone(dec.Interlace, dec.pos, dec.h)
  /\ \E error \in {gifPos >= Len(gifFile), TRUE} :
       IF error
         THEN /\ dec' = [dec EXCEPT !.name = "exception"]
              /\ UNCHANGED gifPos
         ELSE /\ dec' = [dec EXCEPT !.name = "DGifGetLine",
                                    !.frameImage[dec.pos.y + 1] = gifFile[gifPos + 1],
                                    !.rows = Append(@, dec.pos.y),
                                    !.pos = nextLine(dec.Interlace, dec.pos, dec.h)]
              /\ gifPos' = gifPos + 1
  /\ UNCHANGED encVars
  /\ UNCHANGED <<srcSprite, gifFile, fopOneFrame, fopStop, decOp>>
  /\ UNCHANGED octVars

\* the loops of readFrameIndexedImage are over: "return frameImage.release()"
LaceRead ==
  /\ dec.name \in {"DGifGetImageDesc", "DGifGetLine"}
  /\ linesDone(dec.Interlace, dec.pos, dec.h)
  /\ dec' = [dec EXCEPT !.name = "readFrameIndexedImage"]
  /\ UNCHANGED encVars
  /\ UNCHANGED <<srcSprite, gifFile, gifPos, fopOneFrame, fopStop, decOp>>
  /\ UNCHANGED octVars

LaceNext == LacePutLine \/ LaceWritten \/ LaceGetLine \/ LaceRead

SpecLace == LaceInit /\ [][LaceNext]_vars

\***************************************************************************
\* doc::rgb_luma on channels of 0..255.  The products and the sums are of
\* int operands, so they are int (32 bits, signed); the cast to unsigned
\* applies to their result.  A product or a sum beyond INT_MAX is a signed
\* overflow, after which the behaviour is undefined: the build gives the
\* value of the wraparound or some other value.
\***************************************************************************
LumaSteps == 15         \* the channels take LumaSteps + 1 values of 0..255

LumaChannels == {(k * 255) \div LumaSteps : k \in 0..LumaSteps}

\* what a build can give after the signed overflow, besides the wraparound:
\* any value (two of them here)
LumaOutcomes == {0, 255}

\* The integers of the checker are of 32 bits themselves, so an integer of
\* rgb_luma is kept as two halves [hi, lo] of value hi * 2^16 + lo, with lo
\* in 0..65535; a product or a sum is then exact whatever its size.
wideMul(a, c) == [hi |-> (((a \div 256) * c) \div 256) + (((((a \div 256) * c) % 256) * 256 + (a % 256) * c) \div 65536), lo |-> ((((a \div 256) * c) % 256) * 256 + (a % 256) * c) % 65536]

wideAdd(x, y) == [hi |-> x.hi + y.hi + (x.lo + y.lo) \div 65536, lo |-> (x.lo + y.lo) % 65536]

\* the value is beyond INT_MAX = 2^31 - 1
beyondIntMax(x) == x.hi >= 32768

\* the conversion of an int to unsigned: the value modulo 2^32
toUnsigned(x) == [hi |-> x.hi % 65536, lo |-> x.lo]

\* the weighted sum, in the order the expression is evaluated in
lumaSum(r, g, b) == wideAdd(wideAdd(wideMul(r * r, 13933), wideMul(g * g, 46871)), wideMul(b * b, 4732))

\* an int operation of rgb_luma leaves the range of int
lumaOverflows(r, g, b) ==
  \/ beyondIntMax(wideMul(r * r, 13933))
  \/ beyondIntMax(wideMul(g * g, 46871))
  \/ beyondIntMax(wideAdd(wideMul(r * r, 13933), wideMul(g * g, 46871)))
  \/ beyondIntMax(wideMul(b * b, 4732))
  \/ beyondIntMax(lumaSum(r, g, b))

\* rgb_luma with wraparound: "(unsigned) (...) >> 24"
rgb_luma(r, g, b) == toUnsigned(lumaSum(r, g, b)).hi \div 256

\* a colour whose luma is asked for
LumaInit ==
  /\ \E r \in LumaChannels, g \in LumaChannels, b \in LumaChannels :
       octOp = [name |-> "color", r |-> r, g |-> g, b |-> b]
  /\ NewOctreeMap /\ m_includeMaskColorInPalette = FALSE
  /\ pals = <<>> /\ outPalette = <<>> /\ levelDeep = 8
  /\ NoEncoder
  /\ NoDecoder

\* the call rgb_luma(r, g, b)
RgbLuma ==
  /\ octOp.name = "color"
  /\ \E ret \in {rgb_luma(octOp.r, octOp.g, octOp.b)}
                  \cup (IF lumaOverflows(octOp.r, octOp.g, octOp.b) THEN LumaOutcomes ELSE {}) :
       octOp' = [name |-> "rgb_luma", r |-> octOp.r, g |-> octOp.g, b |-> octOp.b,
                 ret |-> ret, overflow |-> lumaOverflows(octOp.r, octOp.g, octOp.b)]
  /\ UNCHANGED <<m_root, m_leavesVector, m_maskIndex, m_includeMaskColorInPalette,
                 m_palette, m_modifications, pals, outPalette, levelDeep>>
  /\ UNCHANGED encVars
  /\ UNCHANGED decVars

LumaNext == RgbLuma

SpecLuma == LumaInit /\ [][LumaNext]_vars

\***************************************************************************
\* Claims on the quantizer
\***************************************************************************
\* the leaves the fed colours produced (makePalette leaves their accumulators
\* as they were)
FedLeaves == {p \in DOMAIN m_root : Len(p) = levelDeep /\ m_root[p].pixelCount > 0}

\* colorCount once the mask colour has its entry
EffectiveCount ==
  IF m_includeMaskColorInPalette THEN octOp.colorCount - 1 ELSE octOp.colorCount

MaskEntries == IF m_includeMaskColorInPalette THEN <<rgba(0, 0, 0, 0)>> ELSE <<>>

\* the leaf list is the fed leaves, each once, and the palette holds the
\* average of each, in the order of the list
LeavesUnmerged ==
  /\ Len(m_leavesVector) = Cardinality(FedLeaves)
  /\ {m_leavesVector[i] : i \in 1..Len(m_leavesVector)} = FedLeaves

\* C2: a makePalette(palette, N, levelDeep) that returns true leaves at most
\* N entries in the palette, N+1 when the mask colour has its entry (N >= 1).
C2_PaletteSizeWithinTarget ==
  (octOp.name = "makePalette" /\ octOp.ret)
    => Len(outPalette) <= (IF m_includeMaskColorInPalette
                             THEN octOp.colorCount + 1 ELSE octOp.colorCount)

\* C9 as stated: when the fed colours make no more leaves than the target
\* count, makePalette merges no leaf: the palette it fills has (after the mask
\* entry, when there is one) exactly one entry per leaf, the average of the
\* leaf.
C9_NoMergeWhenLeavesFitTarget ==
  (octOp.name = "makePalette" /\ octOp.ret /\ Cardinality(FedLeaves) <= octOp.colorCount)
    => /\ LeavesUnmerged
       /\ outPalette = MaskEntries \o
            [i \in 1..Len(m_leavesVector) |-> rgbaColor(m_root[m_leavesVector[i]])]

\* C9 as amended: when makePalette returns true and the fed colours make no
\* more leaves than the target count less the mask entry, no leaf is merged:
\* after the mask entry (when included) the palette has exactly one entry per
\* leaf, the average of the colours fed to it.
C9_NoMergeWhenLeavesFitEffectiveTarget ==
  (octOp.name = "makePalette" /\ octOp.ret /\ Cardinality(FedLeaves) <= EffectiveCount)
    => /\ LeavesUnmerged
       /\ outPalette = MaskEntries \o
            [i \in 1..Len(m_leavesVector) |-> rgbaColor(m_root[m_leavesVector[i]])]

\* {red, red, blue} with target count 2 gave the palette {red, blue}
C9_RedRedBlue ==
  /\ octOp.name = "makePalette" /\ octOp.ret /\ octOp.colorCount = 2
  /\ ~m_includeMaskColorInPalette
  /\ FedLeaves = {PathOf(red, levelDeep), PathOf(blue, levelDeep)}
  /\ m_root[PathOf(red, levelDeep)].pixelCount = 2
  /\ m_root[PathOf(red, levelDeep)].r = 510
  /\ m_root[PathOf(blue, levelDeep)].pixelCount = 1
  /\ outPalette = <<red, blue>>

\* C8 as stated: when more than 256 distinct colours were fed and 256 are
\* asked for, makePalette returns true and the palette has exactly 256
\* entries.
C8_ReducesToExactly256 ==
  (octOp.name = "makePalette" /\ octOp.colorCount = 256 /\ octOp.fed > 256)
    => (octOp.ret /\ Len(outPalette) = 256)

\* C8 as amended: when more than 256 distinct colours were fed and 256 are
\* asked for, makePalette returns true and the palette has at most 256
\* entries and at least 242: a collapse puts one parent in the place of up to
\* 16 leaves, so the count can step over 256.
C8_ReducesToAtMost256 ==
  (octOp.name = "makePalette" /\ octOp.colorCount = 256 /\ octOp.fed > 256)
    => (octOp.ret /\ Len(outPalette) <= 256 /\ Len(outPalette) >= 242)

\* more than 256 colours were reduced to fewer than 256 entries
C8_FewerThan256 ==
  /\ octOp.name = "makePalette"
  /\ octOp.colorCount = 256
  /\ octOp.fed > 256
  /\ octOp.ret
  /\ Len(outPalette) < 256
  /\ Len(m_leavesVector) < Cardinality({p \in DOMAIN m_root : Len(p) = levelDeep})

\***************************************************************************
\* Claims on the colour mapping
\***************************************************************************
\* the map was made or regenerated for the palette as it is now
MapIsFresh == m_palette # 0 /\ m_modifications = pals[m_palette].mods

\* C3: once the map is regenerated for a palette, mapColor(c) returns an
\* index i of the palette, 0 <= i < palette.size(); the index comes from the
\* depth-8 leaf of c: the one it holds if it holds one, the best fit
\* otherwise, which the leaf then holds
C3_MapColorInRangeAndCached ==
  (octOp.name = "mapColor" /\ MapIsFresh) =>
    /\ 0 <= octOp.ret
    /\ octOp.ret < Len(pals[m_palette].colors)
    /\ (octOp.cached # -1 => octOp.ret = octOp.cached)
    /\ NodeAt(m_root, PathOf(octOp.color, 8)).paletteIndex = octOp.ret

\* C3 happens: mapColor answers from an index an earlier best-fit search left
\* in a leaf that is no palette entry, in a map regenerated from a palette
C3_CachedBestfitReturned ==
  /\ octOp.name = "mapColor"
  /\ MapIsFresh
  /\ octOp.cached # -1
  /\ octOp.ret = octOp.cached
  /\ NodeAt(m_root, PathOf(octOp.color, 8)).pixelCount = 0
  /\ \E q \in DOMAIN m_root : m_root[q].pixelCount > 0

\* the tree holds the entries of the palette and nothing else: its nodes lie
\* on the paths of the entries, and an index is held only by the depth-8 leaf
\* of an entry, the index of the last entry of that colour
TreeOfPalette(tree, colors) ==
  /\ \A q \in DOMAIN tree :
       \E i \in 1..Len(colors) : q = SubSeq(PathOf(colors[i], 8), 1, Len(q))
  /\ \A q \in DOMAIN tree :
       tree[q].paletteIndex # -1 =>
         /\ Len(q) = 8
         /\ \E i \in 1..Len(colors) :
              /\ PathOf(colors[i], 8) = q
              /\ tree[q].paletteIndex = i - 1
              /\ \A j \in 1..Len(colors) : colors[j] = colors[i] => j <= i
  /\ \A i \in 1..Len(colors) : NodeAt(tree, PathOf(colors[i], 8)).paletteIndex # -1

\* C7: regenerateMap(palette, maskIndex) changes nothing when the palette
\* object, its modification stamp and the mask index are the ones the map
\* holds; when any of them differs the tree is dropped and built again from
\* the entries of the palette, and the three are recorded
C7_RegenerateOnlyWhenChanged ==
  [][octOp'.name = "regenerateMap" =>
       IF /\ m_palette = octOp'.palette
          /\ m_modifications = pals[octOp'.palette].mods
          /\ m_maskIndex = octOp'.maskIndex
         THEN UNCHANGED <<m_root, m_leavesVector, m_maskIndex, m_palette, m_modifications>>
         ELSE /\ TreeOfPalette(m_root', pals[octOp'.palette].colors)
              /\ m_leavesVector' = <<>>
              /\ m_palette' = octOp'.palette
              /\ m_modifications' = pals[octOp'.palette].mods
              /\ m_maskIndex' = octOp'.maskIndex]_vars

\* C7 happens: a regeneration found nothing changed and left in place a tree
\* that holds an index cached by mapColor
C7_UselessRegenerationKeepsCache ==
  /\ octOp.name = "regenerateMap"
  /\ ~octOp.rebuilt
  /\ \E q \in DOMAIN m_root : m_root[q].pixelCount = 0 /\ m_root[q].paletteIndex # -1

\***************************************************************************
\* Claims on the encoder
\***************************************************************************
\* writeImage was called for a frame
FrameWritten == encOp.name = "writeImage"

\* C4: when frame k has a successor and some pixel is not zero in the
\* rendering of frame k and zero in the rendering of frame k+1, frame k is
\* written with the disposal RestoreBackground (frame 0 and the later ones).
C4_ClearingRestoresBackground ==
  (/\ FrameWritten
   /\ encOp.hasNext
   /\ \E i \in DOMAIN encOp.current : encOp.current[i] # 0 /\ encOp.next[i] = 0)
    => encOp.disposal = "RESTORE_BGCOLOR"

\* C4 happens: a frame after frame 0 of a sprite that does not preserve the
\* palette order has a pixel cleared by its successor
C4_LaterFrameCleared ==
  /\ FrameWritten
  /\ encOp.gifFrame > 0
  /\ encOp.hasNext
  /\ ~m_preservePaletteOrder
  /\ \E i \in DOMAIN encOp.current : encOp.current[i] # 0 /\ encOp.next[i] = 0
  /\ encOp.disposal = "RESTORE_BGCOLOR"

\* C5: when frame k > 0 is identical to frame k-1, the rectangle of frame k
\* is exactly 1x1, whatever the canvas and with or without transparent
\* pixels.
C5_IdenticalFrameIsOnePixel ==
  (FrameWritten /\ encOp.gifFrame > 0 /\ encOp.previous = encOp.current)
    => (encOp.frameBounds.w = 1 /\ encOp.frameBounds.h = 1)

\* C6: the rectangle writeImage is called with has a width and a height of
\* at least 1 and lies inside the canvas (0, 0, canvasW, canvasH).
C6_FrameBoundsInsideCanvas ==
  FrameWritten =>
    /\ encOp.frameBounds.w >= 1
    /\ encOp.frameBounds.h >= 1
    /\ encOp.frameBounds.x >= 0
    /\ encOp.frameBounds.y >= 0
    /\ encOp.frameBounds.x + encOp.frameBounds.w <= m_spriteBounds.w
    /\ encOp.frameBounds.y + encOp.frameBounds.h <= m_spriteBounds.h

\* C6 happens: a frame with no change on a canvas wider than one pixel,
\* whose empty bounds were replaced by (0, 0, 1, 1)
C6_EmptyBoundsReplaced ==
  /\ FrameWritten
  /\ encOp.gifFrame > 0
  /\ m_spriteBounds.w > 1
  /\ encOp.previous = encOp.current
  /\ \A i \in DOMAIN encOp.next : encOp.next[i] # 0
  /\ encOp.lastDisposal # "RESTORE_BGCOLOR"
  /\ encOp.frameBounds = Rect(0, 0, 1, 1)

\***************************************************************************
\* Claims on the decoder
\***************************************************************************
\* the number of image records among the records read so far
ImagesRead == Cardinality({k \in 1..gifPos : gifFile.records[k].type = "IMAGE_DESC"})

\* the position of the n-th image record of the file
ImagePosition(n) ==
  CHOOSE k \in 1..Len(gifFile.records) :
    /\ gifFile.records[k].type = "IMAGE_DESC"
    /\ Cardinality({j \in 1..k : gifFile.records[j].type = "IMAGE_DESC"}) = n

\* the delay in force at record k: that of the closest graphics control
\* extension between the previous image record and k, 1 when there is none
RECURSIVE DelayAt(_)
DelayAt(k) ==
  IF k = 1 THEN 1
  ELSE LET r == gifFile.records[k - 1]
       IN IF r.type = "IMAGE_DESC" THEN 1
          ELSE IF r.code = GRAPHICS_EXT_FUNC_CODE /\ r.bytes[1] >= 4
            THEN r.bytes[4] * 256 + r.bytes[3]
          ELSE DelayAt(k - 1)

\* the sprite holds exactly one frame for each image record read, each with
\* a cel and the duration of its delay in milliseconds
FramesOfImagesRead ==
  /\ dec.m_sprite # <<>>
  /\ Len(dec.m_sprite.frames) = ImagesRead
  /\ \A n \in 1..ImagesRead :
       /\ dec.m_sprite.frames[n].cel # <<>>
       /\ dec.m_sprite.frames[n].duration = 10 * DelayAt(ImagePosition(n))

\* decode() left its loop for the reason it reports
StoppedForItsReason ==
  /\ decOp.reason = "terminate" => gifPos = Len(gifFile.records)
  /\ decOp.reason = "oneFrame" =>
       fopOneFrame /\ ImagesRead = 1 /\ gifFile.records[gifPos].type = "IMAGE_DESC"
  /\ decOp.reason = "stop" => fopStop /\ gifPos >= 1

\* C10 as stated: decode() stops at a terminate record, after the first
\* image when one frame is asked for, or when the stop flag is seen after a
\* record; in each case it reports success and the sprite has exactly the
\* frames of the image records read, each with its cel and duration.
C10_StopsWithSuccess ==
  decOp.name = "decode" =>
    /\ StoppedForItsReason
    /\ decOp.ret
    /\ FramesOfImagesRead

\* C10 amended: decode() stops in one of the three cases; it reports success
\* exactly when at least one image record was read, and then the sprite has
\* exactly the frames of the image records read, each with its cel and its
\* duration; with no image record read there is no sprite and it reports
\* failure.
C10_StopsWithSuccessIfAnImageWasRead ==
  decOp.name = "decode" =>
    /\ StoppedForItsReason
    /\ decOp.ret <=> ImagesRead >= 1
    /\ decOp.ret => FramesOfImagesRead
    /\ ~decOp.ret => dec.m_sprite = <<>>

\* decode() stopped by the stop flag after one image of delay 300, with an
\* image record left unread
C10_StoppedBeforeAnImage ==
  /\ decOp.name = "decode"
  /\ decOp.reason = "stop"
  /\ decOp.ret
  /\ ImagesRead = 1
  /\ gifPos < Len(gifFile.records)
  /\ gifFile.records[gifPos + 1].type = "IMAGE_DESC"
  /\ Len(dec.m_sprite.frames) = 1
  /\ dec.m_sprite.frames[1].duration = 3000

\***************************************************************************
\* Claims on the round trip
\***************************************************************************
\* the file written from the sprite was read to its end
RoundTripDone == srcSprite # <<>> /\ decOp.name = "decode"

\* the palette and the cel of the sprite read
DecodedPalette == spritePalette(dec.m_sprite, 0)
DecodedPixels == dec.m_sprite.frames[1].cel

\* the palette with black entries after it up to the next power of two, 2 at
\* least
PaddedPalette(palette) ==
  [i \in 1..Pow2(GifBitSize(Len(palette))) |-> IF i <= Len(palette) THEN palette[i] ELSE black]

\* the first index of the palette that holds the colour of index i
FirstIndexOfColor(palette, i) == MinOf({j \in 0..i : palette[j + 1] = palette[i + 1]})

CelsOf(sprite) == {sprite.frames[k].cel : k \in DOMAIN sprite.frames} \ {<<>>}

\* C11: when the read of a record type, of an image descriptor, of a
\* scanline or of an extension fails, the load delivers no sprite, and what
\* the decoder holds shows no frame in part: its canvas is the canvas left
\* by the last image read in full, and there is one cel for each such image;
\* when a write of a frame fails the encoder writes nothing more.
C11_ErrorsAbort ==
  /\ [](decOp.name = "exception" =>
         /\ decOp.document = <<>>
         /\ dec.m_sprite # <<>> =>
              /\ dec.m_currentImage = dec.m_previousImage
              /\ \A k \in DOMAIN dec.m_sprite.frames :
                   (dec.m_sprite.frames[k].cel # <<>>) = (k <= dec.m_frameNum))
  /\ [][encOp.name = "exception" => UNCHANGED encVars]_vars

\* a scanline fails to be read after a first image was decoded: the frame of
\* the second image exists, nothing is delivered
C11_ScanlineErrorAfterAFrame ==
  /\ decOp.name = "exception"
  /\ decOp.error = "DGifGetLine"
  /\ dec.m_frameNum = 1
  /\ Len(dec.m_sprite.frames) = 2
  /\ decOp.document = <<>>

\* the decoder ends its loop with the record during which the stop flag was
\* set, and what it then delivers are the frames of the images read
C12_DecoderPollsTheStopFlag ==
  /\ [][fopStop /\ DecodeRunning => decOp'.name # "record"]_vars
  /\ [](decOp.name = "decode" /\ decOp.reason = "stop" /\ dec.m_frameNum > 0 =>
         /\ decOp.document # <<>>
         /\ Len(decOp.document.frames) = dec.m_frameNum)

\* C12: the loop of the decoder and the loop of the encoder poll the stop
\* flag once a turn: the decoder reads no record after the one during which
\* the flag was set, the encoder writes no frame after a frame written with
\* the flag set, and the frames decoded or written before remain.
C12_StopFlagEndsBothLoops ==
  /\ C12_DecoderPollsTheStopFlag
  /\ [][encOp.name = "writeImage" /\ encOp.stop => gifFrame' = gifFrame /\ encOp' = encOp]_vars

\***************************************************************************
\* Claims about calculatePalette (SpecCalc)
\***************************************************************************
\* C13: the loop over the thickness of the border ends, whatever the size of
\* the delta image and whatever the optimizer answers each turn:
\* calculatePalette returns.
C13_BorderLoopTerminates == <>(calc.op = "return")

\* C14: the palette calculatePalette returns has at most 256 entries, one of
\* them made for the transparent colour, and m_transparentIndex is the index
\* of that entry, on each of the three ways to the return.
C14_PaletteReservesTransparency ==
  calc.op = "return" =>
    /\ calc.pal.size <= 256
    /\ calc.pal.reserved # {}
    /\ calc.m_transparentIndex \in calc.pal.reserved

C15_FirstPaletteFits ==
  (decOp.name = "decode" /\ decOp.ret) => Len(spritePalette(dec.m_sprite, 0)) <= 256

\* frame 0 had 257 colours and its palette was reduced
C15_FirstPaletteReduced ==
  /\ decOp.name = "decode" /\ decOp.ret
  /\ dec.m_sprite.pixelFormat = "IMAGE_RGB"
  /\ Len(dec.m_sprite.palettes) = 1
  /\ Len(spritePalette(dec.m_sprite, 0)) = 256

\***************************************************************************
\* Claims about the disposal and the graphics control extension (SpecDec)
\***************************************************************************
\* the step reads an image record in full and the loop goes on
ImageRecordRead ==
  /\ DecodeRunning
  /\ gifPos < Len(gifFile.records)
  /\ gifPos' = gifPos + 1
  /\ gifFile.records[gifPos + 1].type = "IMAGE_DESC"
  /\ decOp'.name = "record"

\* the canvas an image record is composited onto
CanvasBefore ==
  IF dec.m_sprite = <<>>
    THEN [p \in 1..(gifFile.SWidth * gifFile.SHeight) |-> dec.m_bgIndex]
    ELSE dec.m_currentImage

\* C16: the cel of an image record A is the canvas before A with the pixels
\* of A drawn in its rectangle; the canvas left for the next image record is
\* that cel when the disposal of A is None or DoNotDispose, that cel with the
\* rectangle of A filled with the background index when it is
\* RestoreBackground, that cel with the rectangle of A as it was before A
\* when it is RestorePrevious; outside the rectangle of A the canvas left is
\* the cel.
C16_DisposalActsOnTheRectangle ==
  [][ImageRecordRead =>
       LET rec == gifFile.records[gifPos + 1]
           w == gifFile.SWidth
           cel == dec'.m_sprite.frames[dec.m_frameNum + 1].cel
           after == dec'.m_currentImage
           disposal == dec.m_disposalMethod
       IN \A p \in DOMAIN after :
            IF InFrameBounds(p, w, rec)
              THEN /\ cel[p] = IF FramePixel(p, w, rec, readFrameIndexedImage(rec)) = dec.m_localTransparentIndex
                                 THEN CanvasBefore[p]
                                 ELSE dec'.m_remap[FramePixel(p, w, rec, readFrameIndexedImage(rec)) + 1]
                   /\ after[p] = IF disposal = DisposalValue("RESTORE_BGCOLOR") THEN dec.m_bgIndex
                                 ELSE IF disposal = DisposalValue("RESTORE_PREVIOUS") THEN CanvasBefore[p]
                                 ELSE cel[p]
              ELSE cel[p] = CanvasBefore[p] /\ after[p] = cel[p]]_vars

\* the last record read is an image that followed a graphics control
\* extension with RestorePrevious, and the canvas left is not its cel
C16_PreviousRestored ==
  /\ decOp.name = "record"
  /\ gifPos >= 3
  /\ gifFile.records[gifPos].type = "IMAGE_DESC"
  /\ gifFile.records[gifPos - 1] = GraphicsControl(DisposalValue("RESTORE_PREVIOUS"), FALSE, 0, 300)
  /\ dec.m_frameNum = 2
  /\ dec.m_currentImage # dec.m_sprite.frames[2].cel
  /\ dec.m_currentImage = dec.m_sprite.frames[1].cel

\* the disposal, transparent index and delay that the first n records of the
\* file leave for the next image: those of the last graphics control
\* extension after the last image, the defaults when there is none
RECURSIVE InForce(_)
InForce(n) ==
  IF n = 0 \/ gifFile.records[n].type = "IMAGE_DESC"
    THEN [disposal |-> 0, transparent |-> -1, delay |-> 1]
  ELSE IF gifFile.records[n].code = 249
    THEN LET b == gifFile.records[n].bytes
         IN [disposal |-> b[2] \div 4,
             transparent |-> IF b[2] % 2 = 1 THEN b[5] ELSE -1,
             delay |-> b[3] + 256 * b[4]]
  ELSE InForce(n - 1)

\* C17: while the file is read, the disposal, the transparent index and the
\* delay the decoder holds are those of the last graphics control extension
\* read since the last image, and the defaults (None, -1, 1) when an image
\* was the last record read or nothing was read; the frame of an image has
\* ten times the delay that was held when the image was read.
C17_ControlAppliesToTheNextImage ==
  DecodeRunning =>
    /\ dec.m_disposalMethod = InForce(gifPos).disposal
    /\ dec.m_localTransparentIndex = InForce(gifPos).transparent
    /\ dec.m_frameDelay = InForce(gifPos).delay
    /\ (gifPos > 0 /\ gifFile.records[gifPos].type = "IMAGE_DESC") =>
         dec.m_sprite.frames[dec.m_frameNum].duration = 10 * InForce(gifPos - 1).delay

\* an image after a graphics control extension, then an image without one:
\* the second frame has the default delay
C17_SecondImageHasDefaults ==
  /\ decOp.name = "record"
  /\ gifPos = 3
  /\ gifFile.records[1] = GraphicsControl(DisposalValue("RESTORE_BGCOLOR"), TRUE, 0, 5)
  /\ gifFile.records[2].type = "IMAGE_DESC"
  /\ gifFile.records[3].type = "IMAGE_DESC"
  /\ dec.m_sprite.frames[1].duration = 50
  /\ dec.m_sprite.frames[2].duration = 10
  /\ dec.m_disposalMethod = 0

\***************************************************************************
\* Claims about the graphics control extension written and read (SpecExt)
\***************************************************************************
\* C18: the extension written for disposal D, transparent index T (or none)
\* and a duration of d milliseconds, d < 655360, without the duration fix,
\* is read as disposal D, transparent index T (-1 when none) and a delay
\* that gives the frame of the next image 10 * (d \div 10) milliseconds.
C18_ExtensionReadBack ==
  (encOp.name = "writeExtension" /\ decOp.name = "record") =>
    /\ gifPos = 1 =>
         /\ dec.m_disposalMethod = encOp.disposalMethod
         /\ dec.m_localTransparentIndex = encOp.transparentIndex
         /\ dec.m_frameDelay = encOp.duration \div 10
    /\ gifPos = 2 =>
         dec.m_sprite.frames[1].duration = 10 * (encOp.duration \div 10)

\* a duration of 2565 ms with transparent index 255 and RestorePrevious was
\* written and read, and the image after it has 2560 ms
C18_TwoByteDelayReadBack ==
  /\ encOp.name = "writeExtension"
  /\ encOp.duration = 2565
  /\ encOp.transparentIndex = 255
  /\ encOp.disposalMethod = 3
  /\ decOp.name = "record"
  /\ gifPos = 2
  /\ dec.m_sprite.frames[1].duration = 2560

\***************************************************************************
\* Claims about feedWithImage (SpecFeed)
\***************************************************************************
\* pixels of the image fed last whose alpha is at least the threshold
FedPixels == {i \in 1..Len(octOp.image.pixels) : PixelAlpha(octOp.image, i) >= 16}

\* colour that pixel i of the image fed last has in the octree
FedColorOf(i) ==
  IF octOp.image.pixelFormat = "IMAGE_RGB"
    THEN rgba(octOp.image.pixels[i][1], octOp.image.pixels[i][2], octOp.image.pixels[i][3],
              IF octOp.withAlpha THEN octOp.image.pixels[i][4] ELSE 255)
    ELSE rgba(octOp.image.pixels[i][1], octOp.image.pixels[i][1], octOp.image.pixels[i][1],
              octOp.image.pixels[i][2])

\* C19: feedWithImage adds no pixel of alpha below 16 and adds each pixel of
\* alpha 16 or more once, for either value of withAlpha and for RGB and
\* grayscale images: each leaf gains as many colours as there are such pixels
\* on its path, and nothing else of the octree changes.
C19_FeedSkipsLowAlphaOnly ==
  octOp.name = "feedWithImage" =>
    /\ FedCount(m_root, levelDeep)
         = FedCount(octOp.before, levelDeep) + Cardinality(FedPixels)
    /\ \A p \in DOMAIN m_root :
         Len(p) = levelDeep =>
           m_root[p].pixelCount
             = NodeAt(octOp.before, p).pixelCount
                 + Cardinality({i \in FedPixels : PathOf(FedColorOf(i), levelDeep) = p})
    /\ FedPixels = {} => m_root = octOp.before

\* an RGB image of a pixel of alpha 15 and a pixel of alpha 16 was fed
\* without alpha to a map that already has a colour: one colour was added
C19_OnePixelOfTwoFed ==
  /\ octOp.name = "feedWithImage"
  /\ octOp.image.pixelFormat = "IMAGE_RGB"
  /\ ~octOp.withAlpha
  /\ Len(octOp.image.pixels) = 2
  /\ octOp.image.pixels[1][4] = 15
  /\ octOp.image.pixels[2][4] = 16
  /\ FedCount(octOp.before, levelDeep) = 1
  /\ FedCount(m_root, levelDeep) = 2

\* a grayscale image of a pixel of alpha 0 and a pixel of alpha 255 was fed
C19_GrayPixelFed ==
  /\ octOp.name = "feedWithImage"
  /\ octOp.image.pixelFormat = "IMAGE_GRAYSCALE"
  /\ Len(octOp.image.pixels) = 2
  /\ octOp.image.pixels[1][2] = 0
  /\ octOp.image.pixels[2][2] = 255
  /\ FedCount(m_root, levelDeep) = FedCount(octOp.before, levelDeep) + 1

\***************************************************************************
\* Claims about the value makePalette returns (SpecQuant)
\***************************************************************************
\* leaves of the octree makePalette was called on
LeavesBefore ==
  {p \in DOMAIN octOp.root : Len(p) = levelDeep /\ octOp.root[p].pixelCount > 0}

\* colours asked of makePalette, less the entry of the mask colour
CountAsked == octOp.colorCount - (IF m_includeMaskColorInPalette THEN 1 ELSE 0)

\* C20: makePalette returns false exactly when levelDeep is 7 and the octree
\* has fewer leaves than the colour count less the reserved transparent
\* entry; the palette given is then as it was before the call. With
\* levelDeep 8 it returns true.
C20_FalseAsksForTheDeeperOctree ==
  octOp.name = "makePalette" =>
    /\ ~octOp.ret <=> (levelDeep = 7 /\ Cardinality(LeavesBefore) < CountAsked)
    /\ ~octOp.ret => outPalette = octOp.before
    /\ levelDeep = 8 => octOp.ret

\* makePalette(3, 7) with the mask colour included on an octree of one leaf
\* returned false and left the palette alone
C20_OneLeafForTwoColours ==
  /\ octOp.name = "makePalette"
  /\ levelDeep = 7
  /\ m_includeMaskColorInPalette
  /\ octOp.colorCount = 3
  /\ Cardinality(LeavesBefore) = 1
  /\ ~octOp.ret
  /\ outPalette = <<rgba(0, 0, 0, 255)>>

\***************************************************************************
\* Claims about the indices writeImage writes (SpecWrite)
\***************************************************************************
\* the colormap the pixels of the frame written are read with
ColormapInEffect ==
  IF encOp.records[2].ColorMap # <<>> THEN encOp.records[2].ColorMap
                                      ELSE encOp.enc.m_globalColormap

\* C21: every pixel index in the scanlines of a frame is smaller than the
\* number of entries of the colormap in effect (the local colormap when the
\* frame has one, the global colormap otherwise), also when the transparent
\* or the background index is beyond the frame palette.
C21_IndexesInsideTheColormap ==
  encOp.name = "writeImage" =>
    \A k \in DOMAIN encOp.records[2].lines :
      \A x \in DOMAIN encOp.records[2].lines[k] :
        encOp.records[2].lines[k][x] < Len(ColormapInEffect)

\* the indices are inside the colormap when the transparent and the
\* background index are entries of the frame palette
C21_IndexesInsideWhenMembersAre ==
  (/\ encOp.name = "writeImage"
   /\ encOp.enc.m_transparentIndex < Len(encOp.framePalette)
   /\ encOp.enc.m_bgIndex < Len(encOp.framePalette)) =>
    \A k \in DOMAIN encOp.records[2].lines :
      \A x \in DOMAIN encOp.records[2].lines[k] :
        encOp.records[2].lines[k][x] < Len(ColormapInEffect)

\***************************************************************************
\* Claims about the three images of encode() (SpecEnc)
\***************************************************************************
\* C22: during encode() the previous, current and next image are the three
\* buffers of the constructor, each a different one; when the delta of GIF
\* frame k is computed the current image holds the rendering of frame k, the
\* previous one that of frame k - 1 (k > 0) and the next one that of frame
\* k + 1 (k + 1 < nframes); each frame is rendered once, in order, and no
\* other buffer is rendered into.
C22_ThreeImagesRoll ==
  /\ DOMAIN m_images = 0..2
  /\ {m_previousImage, m_currentImage, m_nextImage} = 0..2
  /\ encOp.name \in {"writeImage", "exception"} =>
       /\ encOp.holds[m_currentImage] = encOp.gifFrame
       /\ encOp.gifFrame > 0 => encOp.holds[m_previousImage] = encOp.gifFrame - 1
       /\ encOp.gifFrame + 1 < nframes => encOp.holds[m_nextImage] = encOp.gifFrame + 1
       /\ encOp.rendered = [f \in 1..Min(encOp.gifFrame + 2, nframes) |-> f - 1]
       /\ DOMAIN encOp.holds = 0..2

\* the third frame of three was written: its image is the current one, the
\* image of the second frame the previous one, and three frames were rendered
C22_ThirdFrameOfThree ==
  /\ encOp.name = "writeImage"
  /\ nframes = 3
  /\ gifFrame = 3
  /\ encOp.holds[m_currentImage] = 2
  /\ encOp.holds[m_previousImage] = 1
  /\ encOp.rendered = <<0, 1, 2>>

\***************************************************************************
\* Claims about the rectangles of image records (SpecRect)
\***************************************************************************
\* an image record is read by a turn of the loop of decode()
ImageRecordTurn ==
  /\ DecodeRunning
  /\ gifPos < Len(gifFile.records)
  /\ gifPos' = gifPos + 1
  /\ gifFile.records[gifPos + 1].type = "IMAGE_DESC"

\* C23: an image record whose rectangle has no width or no height is no
\* error and no pixel is read for it (a failing read of scanlines or a
\* missing colormap cannot stop it); it makes one frame whose cel is the
\* canvas as it was.  An image record whose rectangle reaches beyond the
\* canvas is no error: its pixels inside the canvas are drawn and its cel is
\* the canvas as it was everywhere else.  After each image record the sprite
\* has as many frames as image records were read.
C23_RectanglesTolerated ==
  [][ImageRecordTurn =>
       LET rec == gifFile.records[gifPos + 1]
           w == gifFile.SWidth
           noPixels == rec.Width = 0 \/ rec.Height = 0
           threw == decOp'.name = "exception"
           cel == dec'.m_sprite.frames[dec.m_frameNum + 1].cel
       IN /\ (threw /\ noPixels) => decOp'.error \in {"DGifGetRecordType", "DGifGetImageDesc"}
          /\ threw =>
               \/ decOp'.error \in {"DGifGetRecordType", "DGifGetImageDesc", "DGifGetLine"}
               \/ (decOp'.error = "no color map" /\ gifFile.SColorMap = <<>> /\ rec.ColorMap = <<>>)
          /\ ~threw =>
               /\ dec'.m_frameNum = dec.m_frameNum + 1
               /\ Len(dec'.m_sprite.frames)
                    = Cardinality({k \in 1..(gifPos + 1) : gifFile.records[k].type = "IMAGE_DESC"})
          /\ decOp'.name = "record" =>
               \A p \in DOMAIN cel :
                 IF /\ ~noPixels
                    /\ ((p - 1) % w) \in rec.Left..(rec.Left + rec.Width - 1)
                    /\ ((p - 1) \div w) \in rec.Top..(rec.Top + rec.Height - 1)
                    /\ FramePixel(p, w, rec, readFrameIndexedImage(rec)) # dec.m_localTransparentIndex
                   THEN cel[p] = dec'.m_remap[FramePixel(p, w, rec, readFrameIndexedImage(rec)) + 1]
                   ELSE cel[p] = CanvasBefore[p]]_vars

\* a file with a global colormap: an image record without width, whose cel
\* is the empty canvas, then an image of 2x1 at (1, 0), of which the pixel
\* inside the canvas is drawn
C23_NoPixelsThenBeyondTheCanvas ==
  /\ decOp.name = "record"
  /\ gifPos = 2
  /\ gifFile.SColorMap # <<>>
  /\ gifFile.SBackGroundColor = 0
  /\ gifFile.records[1] = ImageDesc(1, 0, 0, 1, FALSE, <<>>, <<<<>>>>)
  /\ gifFile.records[2] = ImageDesc(1, 0, 2, 1, FALSE, <<>>, <<<<1, 0>>>>)
  /\ Len(dec.m_sprite.frames) = 2
  /\ dec.m_sprite.frames[1].cel = <<0, 0>>
  /\ dec.m_sprite.frames[2].cel = <<0, dec.m_remap[2]>>
  /\ dec.m_remap[2] # 0

\***************************************************************************
\* Claims about the palette of a frame and the remap (SpecDec)
\***************************************************************************
\* an image record with pixels was read and decode() goes on with its loop
FrameReadTurn ==
  /\ ImageRecordTurn
  /\ decOp'.name = "record"
  /\ gifFile.records[gifPos + 1].Width > 0
  /\ gifFile.records[gifPos + 1].Height > 0

\* the indexes that the lines of an image record hold
PixelsOfRecord(rec) == {rec.lines[y][x] : <<y, x>> \in {c \in (1..Len(rec.lines)) \X (1..rec.Width) : TRUE}}

\* C24: after the image record of a frame is read, the remap covers the
\* colormap and the palette of the frame, every colormap index that a pixel
\* of the frame holds is mapped to an entry of the palette of the frame that
\* has the colour of that colormap entry with alpha 255, and every index
\* that the frame does not use (with a local colormap: no pixel holds it and
\* it is not the transparent index) is mapped to itself, whatever the frames
\* before mapped it to.
C24_RemapLeadsToTheColour ==
  [][FrameReadTurn =>
       LET rec == gifFile.records[gifPos + 1]
           colormap == IF rec.ColorMap # <<>> THEN rec.ColorMap ELSE gifFile.SColorMap
           pixels == PixelsOfRecord(rec)
           palette == spritePalette(dec'.m_sprite, dec.m_frameNum)
           remap == dec'.m_remap
       IN /\ Len(remap) = Max(Len(colormap), Len(palette))
          /\ \A i \in pixels :
               i < Len(colormap) =>
                 /\ remap[i + 1] \in 0..(Len(palette) - 1)
                 /\ palette[remap[i + 1] + 1]
                      = rgba(colormap[i + 1][1], colormap[i + 1][2], colormap[i + 1][3], 255)
          /\ rec.ColorMap # <<>> =>
               \A i \in 0..(Len(remap) - 1) :
                 (i \notin pixels /\ i # dec.m_localTransparentIndex) => remap[i + 1] = i]_vars

\* the second frame has a local colormap and maps its index 1 to the new
\* entry 2 of the palette, and its unused index 0 to itself, after a frame
\* of the global colormap that mapped index 1 to entry 1
C24_LocalColourAtANewEntry ==
  /\ decOp.name = "record"
  /\ gifPos = 2
  /\ dec.m_frameNum = 2
  /\ gifFile.records[1].type = "IMAGE_DESC"
  /\ gifFile.records[1].ColorMap = <<>>
  /\ gifFile.records[2].type = "IMAGE_DESC"
  /\ gifFile.records[2].ColorMap # <<>>
  /\ dec.m_sprite.frames[1].cel = <<0, 1>>
  /\ dec.m_remap = <<0, 2, 2>>
  /\ spritePalette(dec.m_sprite, 1)[3] = rgba(0, 0, 255, 255)

\* the colormap indexes that updatePalette takes as used by a record
UsedByRecord(rec, colormap, transparentIndex) ==
  IF rec.ColorMap # <<>>
    THEN {i \in 0..(Len(colormap) - 1) : i \in PixelsOfRecord(rec) \/ i = transparentIndex}
    ELSE 0..(Len(colormap) - 1)

\* C25: for every frame after the first, the palette of the frame is the
\* palette of the frame before with entries appended; each appended entry
\* has the colour of a used colormap index and no entry before it has that
\* colour, and a used index whose colour the palette of the frame before
\* holds is mapped to an entry of that palette (this includes the
\* background index on frames that need the extra background entry).
C25_NoEntryForARegisteredColour ==
  [][(FrameReadTurn /\ dec.m_frameNum > 0) =>
       LET rec == gifFile.records[gifPos + 1]
           colormap == IF rec.ColorMap # <<>> THEN rec.ColorMap ELSE gifFile.SColorMap
           used == UsedByRecord(rec, colormap, dec.m_localTransparentIndex)
           colour(i) == rgba(colormap[i + 1][1], colormap[i + 1][2], colormap[i + 1][3], 255)
           old == spritePalette(dec.m_sprite, dec.m_frameNum - 1)
           new == spritePalette(dec'.m_sprite, dec.m_frameNum)
       IN /\ Len(new) >= Len(old)
          /\ SubSeq(new, 1, Len(old)) = old
          /\ \A k \in (Len(old) + 1)..Len(new) :
               /\ \E i \in used : new[k] = colour(i)
               /\ \A j \in 1..(k - 1) : new[j] # new[k]
          /\ \A i \in used :
               (\E j \in 1..Len(old) : old[j] = colour(i)) =>
                 dec'.m_remap[i + 1] \in 0..(Len(old) - 1)]_vars

\***************************************************************************
\* Claims about the rectangle of a frame after a cleared frame (SpecEnc)
\***************************************************************************
\* rectangle a holds every pixel of rectangle b
ContainsRect(a, b) ==
  /\ a.x <= b.x
  /\ a.y <= b.y
  /\ b.x + b.w <= a.x + a.w
  /\ b.y + b.h <= a.y + a.h

\* C26: for every frame after the first whose predecessor was written with
\* the disposal RESTORE_BGCOLOR, the rectangle written for the frame holds
\* the whole rectangle written for the predecessor, the rectangle of 1x1
\* that took the place of an empty one included.
C26_RectangleCoversTheClearedOne ==
  [][(/\ encOp.name = "writeImage"
      /\ encOp'.name = "writeImage"
      /\ encOp'.gifFrame = encOp.gifFrame + 1
      /\ encOp.disposal = "RESTORE_BGCOLOR")
       => ContainsRect(encOp'.frameBounds, encOp.frameBounds)]_vars

\***************************************************************************
\* Claims about "Sort colors" and "Blend colors" (SpecBlend)
\***************************************************************************
\* a pixel count put at its place in a sequence of descending counts
RECURSIVE InsertDescending(_, _)
InsertDescending(counts, n) ==
  IF counts = <<>> THEN <<n>>
  ELSE IF n >= counts[1] THEN <<n>> \o counts
  ELSE <<counts[1]>> \o InsertDescending(Tail(counts), n)

RECURSIVE SortDescending(_)
SortDescending(counts) ==
  IF counts = <<>> THEN <<>>
  ELSE InsertDescending(SortDescending(Tail(counts)), counts[1])

\* descending counts after the two smallest are merged, and again, until
\* there are target of them
RECURSIVE SmallestMerged(_, _)
SmallestMerged(counts, target) ==
  IF Len(counts) <= target \/ Len(counts) < 2 THEN counts
  ELSE SmallestMerged(
         InsertDescending(SubSeq(counts, 1, Len(counts) - 2),
                          counts[Len(counts) - 1] + counts[Len(counts)]),
         target)

\* makePalette took the way of "Sort colors" and "Blend colors"
SmallTargetFallback == octOp.name = "makePalette" /\ octOp.sorted # <<>>

\* C27: when makePalette reduces at most 16 collapsed nodes to a colorCount
\* below 16, the nodes are put in the order of descending pixel count, each
\* step merges the two leaves of the smallest pixel counts of that moment
\* (a merged leaf counts with the sum of its pixels), and the steps end when
\* the leaves are as many as colorCount asks.
C27_BlendsTheTwoSmallest ==
  SmallTargetFallback =>
    LET target == IF m_includeMaskColorInPalette THEN octOp.colorCount - 1
                                                 ELSE octOp.colorCount
        counts == [k \in 1..Len(m_leavesVector) |-> m_root[m_leavesVector[k]].pixelCount]
    IN /\ \A k \in 1..(Len(octOp.sorted) - 1) : octOp.sorted[k] >= octOp.sorted[k + 1]
       /\ Len(m_leavesVector) = target
       /\ SortDescending(counts) = SmallestMerged(octOp.sorted, target)

\***************************************************************************
\* Claims about the order of the output of encode() (SpecOut)
\***************************************************************************
\* the calls for the frames from frame k on: for each frame one graphics
\* control extension, one image descriptor right after it, then a scanline
\* for each row of the descriptor, in the order of the rows (of the four
\* passes when interlaced); the list may stop anywhere
RECURSIVE FramesInOrder(_, _, _)
FramesInOrder(calls, k, interlaced) ==
  IF calls = <<>> THEN TRUE
  ELSE /\ calls[1] = [call |-> "EGifPutExtension", frame |-> k, arg |-> GRAPHICS_EXT_FUNC_CODE]
       /\ Len(calls) >= 2 =>
            /\ calls[2].call = "EGifPutImageDesc"
            /\ calls[2].frame = k
            /\ calls[2].arg >= 1
            /\ LET h == calls[2].arg
                   rows == IF interlaced THEN InterlacedRows(h) ELSE [y \in 1..h |-> y - 1]
               IN /\ \A j \in 1..Min(h, Len(calls) - 2) :
                       calls[2 + j] = [call |-> "EGifPutLine", frame |-> k, arg |-> rows[j]]
                  /\ Len(calls) > 2 + h =>
                       FramesInOrder(SubSeq(calls, 3 + h, Len(calls)), k + 1, interlaced)

\* the graphics control extensions written
FramesBegun ==
  Cardinality({i \in 1..Len(gifFile) : gifFile[i].call = "EGifPutExtension"
                                        /\ gifFile[i].arg = GRAPHICS_EXT_FUNC_CODE})

\* the calls that the image descriptors written ask for: the descriptor, the
\* extension before it and the scanlines
RECURSIVE CallsOfFrames(_)
CallsOfFrames(calls) ==
  IF calls = <<>> THEN 0
  ELSE (IF calls[1].call = "EGifPutImageDesc" THEN 2 + calls[1].arg ELSE 0)
         + CallsOfFrames(Tail(calls))

\* C28: at every moment the output of encode() is the beginning of: the
\* screen descriptor, the NETSCAPE2.0 loop extension once if and only if
\* the loop is enabled, then for each frame in increasing order one
\* graphics control extension, right after it one image descriptor, then
\* exactly frameBounds.h scanlines; and when encode() returns the output is
\* all of it, for every frame.
C28_OutputInOrder ==
  [](LET loop == IF encOp.m_loop >= 0 THEN 1 ELSE 0
     IN /\ gifFile # <<>> => gifFile[1] = [call |-> "EGifPutScreenDesc", frame |-> -1, arg |-> 0]
        /\ (loop = 1 /\ Len(gifFile) >= 2) =>
             gifFile[2] = [call |-> "EGifPutExtension", frame |-> -1,
                           arg |-> APPLICATION_EXT_FUNC_CODE]
        /\ FramesInOrder(SubSeq(gifFile, 2 + loop, Len(gifFile)), 0, encOp.m_interlaced)
        /\ encOp.name = "encode" =>
             /\ FramesBegun = nframes
             /\ Len(gifFile) = 1 + loop + CallsOfFrames(gifFile))

\* encode() returned for two frames with the loop extension, interlaced: the
\* first frame of three rows written as rows 0, 2, 1, the second of two rows
C28_TwoFramesWithLoop ==
  /\ encOp.name = "encode"
  /\ encOp.m_loop >= 0
  /\ encOp.m_interlaced
  /\ nframes = 2
  /\ Len(gifFile) = 11
  /\ gifFile[5].arg = 0 /\ gifFile[6].arg = 2 /\ gifFile[7].arg = 1
  /\ gifFile[9] = [call |-> "EGifPutImageDesc", frame |-> 1, arg |-> 2]

\***************************************************************************
\* Claims about the delay of the frames (SpecFix)
\***************************************************************************
\* the delay that the two bytes of a graphics control extension hold
DelayWritten(record) == record.bytes[3] + 256 * record.bytes[4]

\* C29: with fix_last_frame_duration on, the last frame is written with the
\* delay max(2, floor(floor(d/10)/4)) and every other frame with the delay
\* max(2, floor(d/10)); with it off, every frame is written with the delay
\* floor(d/10); d are the milliseconds of the frame.
C29_OnlyTheLastFrameQuartered ==
  encOp.name = "writeExtension" =>
    LET d == encOp.duration
        tenth == d \div 10
        quarter == tenth \div 4
    IN DelayWritten(encOp.record) =
         IF ~encOp.fix_last_frame_duration THEN tenth
         ELSE IF gifFrame = nframes - 1 THEN (IF quarter >= 2 THEN quarter ELSE 2)
         ELSE (IF tenth >= 2 THEN tenth ELSE 2)

\* with the fix, the second of three frames of 120 ms keeps its delay of 12
C29_MiddleFrameKeepsItsDelay ==
  /\ encOp.name = "writeExtension"
  /\ encOp.fix_last_frame_duration
  /\ nframes = 3
  /\ gifFrame = 1
  /\ encOp.duration = 120
  /\ DelayWritten(encOp.record) = 12

\***************************************************************************
\* Claims about the local colormap of a frame (SpecWrite)
\***************************************************************************
\* a frame was written with a local colormap
LocalFrameWritten == encOp.name = "writeImage" /\ encOp.records[2].ColorMap # <<>>

\* the index written in the scanlines for pixel p of the frame image
WrittenAt(p) ==
  LET rec == encOp.records[2]
      rows == IF rec.Interlace THEN InterlacedRows(rec.Height)
                               ELSE [k \in 1..rec.Height |-> k - 1]
      line == CHOOSE k \in 1..rec.Height : rows[k] = (p - 1) \div rec.Width
  IN rec.lines[line][((p - 1) % rec.Width) + 1]

\* C30: when a frame is written with a local colormap, the pixels of one
\* palette index are written with one index; the indexes written for the
\* used palette indexes keep their order and are exactly 0..k-1 for k used
\* indexes; the local colormap holds at the index written the red, green and
\* blue of the frame palette entry; and the transparent index of the
\* graphics control extension, when it has one, is the index written of no
\* opaque pixel of the frame.
C30_LocalColormapOfTheUsedEntries ==
  LocalFrameWritten =>
    LET image == encOp.frameImage
        ps == DOMAIN image
        used == {image[p] : p \in ps}
        gce == encOp.records[1]
        colormap == encOp.records[2].ColorMap
    IN /\ \A p, q \in ps : image[p] = image[q] => WrittenAt(p) = WrittenAt(q)
       /\ \A p, q \in ps : image[p] < image[q] => WrittenAt(p) < WrittenAt(q)
       /\ {WrittenAt(p) : p \in ps} = 0..(Cardinality(used) - 1)
       /\ \A p \in ps :
            LET entry == encOp.framePalette[image[p] + 1]
            IN colormap[WrittenAt(p) + 1]
                 = <<rgba_getr(entry), rgba_getg(entry), rgba_getb(entry)>>
       /\ gce.bytes[2] % 2 = 1 =>
            \A p \in ps : rgba_geta(encOp.deltaImage[p]) >= 128 => WrittenAt(p) # gce.bytes[5]

\* a frame of a blue and a transparent pixel with the frame palette (red,
\* blue, transparent): the indexes 1 and 2 are written as 0 and 1, and 1 is
\* the transparent index of the extension
C30_BlueAndTransparent ==
  /\ LocalFrameWritten
  /\ encOp.framePalette = <<red, blue, transparent>>
  /\ encOp.frameImage = <<1, 2>>
  /\ WrittenAt(1) = 0
  /\ WrittenAt(2) = 1
  /\ encOp.records[1].bytes[2] % 2 = 1
  /\ encOp.records[1].bytes[5] = 1


\***************************************************************************
\* Claims on the rows of an interlaced frame
\***************************************************************************
\* the rows are each row of 0..h-1 once
EachRowOnce(rows, h) ==
  /\ Len(rows) = h
  /\ \A y \in 0..(h - 1) : Cardinality({k \in DOMAIN rows : rows[k] = y}) = 1

\* C31: for every height h >= 1 the loops of writeImage visit every row of
\* 0..h-1 exactly once, interlaced or not, and no row outside the frame; the
\* loops of readFrameIndexedImage visit the rows in the order in which
\* writeImage wrote them, and the image read has the rows of the frame
\* written, which are the rows a frame that is not interlaced is read with.
C31_InterlacedRowsOnceAndInOrder ==
  /\ \A k \in DOMAIN encOp.rows : encOp.rows[k] \in 0..(encOp.h - 1)
  /\ \A k \in DOMAIN dec.rows : dec.rows[k] = encOp.rows[k]
  /\ encOp.name = "writeImage" => EachRowOnce(encOp.rows, encOp.h)
  /\ dec.name = "readFrameIndexedImage"
       => /\ EachRowOnce(dec.rows, dec.h)
          /\ dec.frameImage = encOp.frameImage
          /\ dec.frameImage = [y \in 1..dec.h |-> gifFile[CHOOSE k \in 1..dec.h : encOp.rows[k] = y - 1]]

\* C31 witness: an interlaced frame of 9 rows was written and read: the
\* first pass has the rows 0 and 8
C31_NineRowsInterlaced ==
  /\ dec.name = "readFrameIndexedImage"
  /\ dec.Interlace
  /\ dec.h = 9
  /\ dec.rows = <<0, 8, 4, 2, 6, 1, 3, 5, 7>>

\***************************************************************************
\* Claims about the pixels the decoder draws (SpecVis)
\***************************************************************************
\* C32: when the first frame declares a transparent index and the sprite is
\* kept indexed, a pixel of a frame that is not the transparent index of the
\* frame is never drawn on the canvas with the transparent index of the
\* sprite (m_bgIndex), on the first frame and on the frames after it.
C32_VisiblePixelsStayVisible ==
  [][(FrameReadTurn /\ ~dec'.m_opaque /\ dec'.m_sprite.pixelFormat = "IMAGE_INDEXED") =>
       LET rec == gifFile.records[gifPos + 1]
           frameImage == readFrameIndexedImage(rec)
       IN \A p \in 1..(gifFile.SWidth * gifFile.SHeight) :
            (/\ InFrameBounds(p, gifFile.SWidth, rec)
             /\ FramePixel(p, gifFile.SWidth, rec, frameImage) # dec.m_localTransparentIndex)
              => dec'.m_sprite.frames[dec.m_frameNum + 1].cel[p] # dec.m_bgIndex]_vars

\* C33: every pixel of a frame that the decoder draws (a pixel inside the
\* canvas that is not the transparent index of the frame) is an index of
\* m_remap when the sprite is indexed and an index of the colormap of the
\* frame when the sprite is RGB: no read outside the Remap or the colormap.
C33_PixelsInsideColormapAndRemap ==
  [][FrameReadTurn =>
       LET rec == gifFile.records[gifPos + 1]
           frameImage == readFrameIndexedImage(rec)
           colormap == IF rec.ColorMap # <<>> THEN rec.ColorMap ELSE gifFile.SColorMap
       IN \A p \in 1..(gifFile.SWidth * gifFile.SHeight) :
            (/\ InFrameBounds(p, gifFile.SWidth, rec)
             /\ FramePixel(p, gifFile.SWidth, rec, frameImage) # dec.m_localTransparentIndex)
              => IF dec'.m_sprite.pixelFormat = "IMAGE_INDEXED"
                   THEN FramePixel(p, gifFile.SWidth, rec, frameImage) < Len(dec'.m_remap)
                   ELSE FramePixel(p, gifFile.SWidth, rec, frameImage) < Len(colormap)]_vars

\***************************************************************************
\* Claims about the last frame and the disposal methods (SpecEnc)
\***************************************************************************
\* what the next image can hold when no frame follows: anything when it was
\* never rendered into, the rendering of an earlier frame otherwise
LookaheadContents ==
  IF encOp.holds[m_nextImage] = -1 THEN Garbage(m_spriteBounds)
                                   ELSE Renderings(m_spriteBounds, m_hasBackground)

\* C34: for the last GIF frame (the only frame included) the disposal method
\* and the rectangle written are those that
\* calculateDeltaImageFrameBoundsDisposal gives for the previous and the
\* current image with any other content of the next image, which is not
\* rendered into when no frame follows.
C34_LastFrameIgnoresTheLookahead ==
  (encOp.name = "writeImage" /\ ~encOp.hasNext) =>
    \A other \in LookaheadContents :
      \A d \in {calculateDeltaImageFrameBoundsDisposal(encOp.gifFrame,
                  [bounds |-> m_spriteBounds, hasBackground |-> m_hasBackground,
                   preservePaletteOrder |-> m_preservePaletteOrder,
                   lastDisposal |-> encOp.lastDisposal,
                   lastFrameBounds |-> encOp.lastFrameBounds],
                  encOp.previous, encOp.current, other)} :
        /\ d.disposal = encOp.disposal
        /\ d.frameBounds = encOp.frameBounds

\* C35: whenever writeImage runs, the delta image has frameBounds.w columns
\* and frameBounds.h rows, one pixel for each turn of the loops of lines
\* 2804-2805, and each of its pixels is the pixel of the current image at
\* that place of frameBounds or 0 (a pixel that did not change); this
\* includes the frame without changed pixels, whose frameBounds is replaced
\* by the rectangle of 1x1.
C35_DeltaImageHasTheSizeOfFrameBounds ==
  encOp.name \in {"writeImage", "exception"} =>
    /\ encOp.deltaImage.w = encOp.frameBounds.w
    /\ encOp.deltaImage.h = encOp.frameBounds.h
    /\ Len(encOp.deltaImage.pixels) = encOp.frameBounds.w * encOp.frameBounds.h
    /\ \A p \in DOMAIN encOp.deltaImage.pixels :
         encOp.deltaImage.pixels[p]
           \in {0, crop_image(encOp.current, m_spriteBounds, encOp.frameBounds).pixels[p]}

\* C36: every frame is written with DO_NOT_DISPOSE or RESTORE_BGCOLOR;
\* m_lastDisposal is the disposal method of the frame written last, so the
\* turn of a frame after frame 0 finds in it the method the frame before was
\* written with; with m_preservePaletteOrder every frame after frame 0 is
\* written with RESTORE_BGCOLOR.
C36_DisposalsWritten ==
  /\ [](encOp.name \in {"writeImage", "exception"} =>
          /\ encOp.disposal \in {"DO_NOT_DISPOSE", "RESTORE_BGCOLOR"}
          /\ m_lastDisposal = encOp.disposal
          /\ (m_preservePaletteOrder /\ encOp.gifFrame > 0) => encOp.disposal = "RESTORE_BGCOLOR")
  /\ [][(EncodeRunning /\ gifFrame > 0) => encOp'.lastDisposal = encOp.disposal]_vars

\* C36 witness: with the palette order preserved, the third frame was
\* written with RESTORE_BGCOLOR after a second frame written with it, though
\* no pixel of the next image is clear
C36_ThirdFrameRestores ==
  /\ encOp.name = "writeImage"
  /\ m_preservePaletteOrder
  /\ encOp.gifFrame = 2
  /\ encOp.disposal = "RESTORE_BGCOLOR"
  /\ encOp.lastDisposal = "RESTORE_BGCOLOR"
  /\ \A p \in DOMAIN encOp.next : encOp.next[p] # 0

\***************************************************************************
\* Claims about the accumulators of the leaves (SpecBlend)
\***************************************************************************
\* the sum of an accumulator (r, g, b, a or pixelCount) over a list of nodes,
\* a node as often as the list names it
RECURSIVE SumOfLeaves(_, _, _)
SumOfLeaves(tree, leaves, field) ==
  IF leaves = <<>> THEN 0
  ELSE tree[leaves[1]][field] + SumOfLeaves(tree, Tail(leaves), field)

\* the leaves of the colours added, in the octree as it was before
\* makePalette, in some order
FedLeavesBefore ==
  LET S == {p \in DOMAIN octOp.root : Len(p) = levelDeep /\ octOp.root[p].pixelCount > 0}
      RECURSIVE listed(_)
      listed(T) == IF T = {} THEN <<>>
                   ELSE LET p == CHOOSE q \in T : TRUE IN <<p>> \o listed(T \ {p})
  IN listed(S)

\* C37: after addColor calls at one depth and a makePalette that returns
\* true with a target of at least 1 (the mask entry taken off), the leaf list
\* names no node twice, the pixel counts of its nodes sum to the number of
\* colours added, so do the sums of each channel to those of the colours
\* added, and every palette entry is the average of the accumulator of its
\* leaf.
C37_NoPixelLostOrCountedTwice ==
  (octOp.name = "makePalette" /\ octOp.ret /\ EffectiveCount >= 1) =>
    /\ \A i, j \in DOMAIN m_leavesVector : i # j => m_leavesVector[i] # m_leavesVector[j]
    /\ SumOfLeaves(m_root, m_leavesVector, "pixelCount") = FedCount(octOp.root, levelDeep)
    /\ \A field \in {"r", "g", "b", "a"} :
         SumOfLeaves(m_root, m_leavesVector, field) = SumOfLeaves(octOp.root, FedLeavesBefore, field)
    /\ outPalette = MaskEntries \o
         [i \in 1..Len(m_leavesVector) |->
            rgba(m_root[m_leavesVector[i]].r \div m_root[m_leavesVector[i]].pixelCount,
                 m_root[m_leavesVector[i]].g \div m_root[m_leavesVector[i]].pixelCount,
                 m_root[m_leavesVector[i]].b \div m_root[m_leavesVector[i]].pixelCount,
                 m_root[m_leavesVector[i]].a \div m_root[m_leavesVector[i]].pixelCount)]

\* C37 witness: six colours were added, red and its neighbour to one leaf,
\* and makePalette(3) collapsed and blended them to three leaves that hold
\* the six pixels
C37_SixPixelsInThreeLeaves ==
  /\ octOp.name = "makePalette" /\ octOp.ret
  /\ ~m_includeMaskColorInPalette
  /\ octOp.colorCount = 3
  /\ FedCount(octOp.root, levelDeep) = 6
  /\ Len(m_leavesVector) = 3
  /\ octOp.sorted # <<>>
  /\ SumOfLeaves(m_root, m_leavesVector, "pixelCount") = 6

\* C38: after feedWithImage with withAlpha = false every colour added to
\* the octree has alpha 255, in RGB and in grayscale images: each leaf gained
\* 255 of alpha for each colour it gained.
C38_ColoursFedAreOpaque ==
  (octOp.name = "feedWithImage" /\ ~octOp.withAlpha) =>
    \A p \in DOMAIN m_root :
      Len(p) = levelDeep =>
        m_root[p].a - NodeAt(octOp.before, p).a
          = 255 * (m_root[p].pixelCount - NodeAt(octOp.before, p).pixelCount)

\***************************************************************************
\* Claims about the mask index of the map (SpecMap)
\***************************************************************************
\* C39: with a mask index of 0 or more, mapColor never returns the mask
\* index for a colour of alpha 255, be it found by best fit or be it the
\* colour of a palette entry that regenerateMap added, the entry at the mask
\* index included.
C39_MaskIndexNeverReturned ==
  (octOp.name = "mapColor" /\ m_maskIndex >= 0 /\ rgba_geta(octOp.color) = 255)
    => octOp.ret # m_maskIndex

\***************************************************************************
\* Claims about rgb_luma (SpecLuma)
\***************************************************************************
\* floor((13933 r^2 + 46871 g^2 + 4732 b^2) / 2^24): each term is
\* q * 2^24 + m with m < 2^24, for a square of s = sh * 4096 + sl
LumaTerm(c, s) == [q |-> ((c * (s \div 4096)) + ((c * (s % 4096)) \div 4096)) \div 4096, m |-> (((c * (s \div 4096)) + ((c * (s % 4096)) \div 4096)) % 4096) * 4096 + ((c * (s % 4096)) % 4096)]

LumaExact(r, g, b) == LumaTerm(13933, r * r).q + LumaTerm(46871, g * g).q + LumaTerm(4732, b * b).q + ((LumaTerm(13933, r * r).m + LumaTerm(46871, g * g).m + LumaTerm(4732, b * b).m) \div 16777216)

\* C40: for channels of 0..255 rgb_luma returns
\* floor((13933 r^2 + 46871 g^2 + 4732 b^2) / 2^24); no operation of the
\* weighted sum leaves the range of the 32-bit arithmetic it is computed in;
\* the result is in 0..255 and is no smaller than the result for a smaller
\* value of one channel.
C40_LumaExactInRangeMonotone ==
  octOp.name = "rgb_luma" =>
    /\ octOp.ret = LumaExact(octOp.r, octOp.g, octOp.b)
    /\ ~octOp.overflow
    /\ octOp.ret \in 0..255
    /\ \A c \in LumaChannels :
         /\ c <= octOp.r => LumaExact(c, octOp.g, octOp.b) <= octOp.ret
         /\ c <= octOp.g => LumaExact(octOp.r, c, octOp.b) <= octOp.ret
         /\ c <= octOp.b => LumaExact(octOp.r, octOp.g, c) <= octOp.ret
====
